---- MODULE Spec2Model ----
(***************************************************************************)
(* Model of the Contextual backend (katsdivi/Contextual, src/backend):     *)
(* the Registry (`files`) / Content Index (`file_index`) dual store of     *)
(* database.py, the folder aggregation, the root tracker, the intent       *)
(* parser and cache of ai.py and the search request of server.py.          *)
(*                                                                         *)
(* Text is modelled as a sequence of atoms (Seq(STRING)): a path is the    *)
(* sequence of its characters, a formatted string is the sequence of its   *)
(* literal chunks and inserted values.  SQL NULL / Python None is the      *)
(* one-atom text NULL.  A table is the sequence of its rows in rowid       *)
(* order (the order a full scan returns them).                             *)
(***************************************************************************)
EXTENDS Integers, Sequences, FiniteSets, TLC

VARIABLES
    files,        \* Registry: table `files`, rows in rowid order
    file_index,   \* Content Index: FTS5 table `file_index`, rows in rowid order
    index_roots,  \* table `index_roots`: set of root paths
    disk,         \* the filesystem: set of paths that exist (directories and files)
    lastAgg,      \* history: folder path -> the aggregates its last update_folder_aggregate wrote
    lastOp,       \* history: the last operation, its arguments and its result
    ops,          \* number of operations performed
    call,         \* the last call answered to a caller: function, input, output
    intent_cache, \* _INTENT_CACHE: normalized query -> (value, expires)
    clock,        \* time.time(), in seconds
    resolved,     \* history: the last two resolutions of parse_search_intent
    reply,        \* history: the last search request and its response
    pc,           \* thread -> where it stands in the call it is making, with its locals
    cache_lock    \* _INTENT_CACHE_LOCK: the thread that holds it, none when free

vars == <<files, file_index, index_roots, disk, lastAgg, lastOp, ops, call,
         intent_cache, clock, resolved, reply, pc, cache_lock>>

\* what the operations of the store leave alone
nonStore == <<call, intent_cache, clock, resolved, reply, pc, cache_lock>>

-----------------------------------------------------------------------------
(* Bounds of the model *)

\* operations per behaviour
MaxOps == 3

\* seconds of the clock up to which time passes between requests
MaxClock == 123

\* files of the largest scanned tree, besides the two of the small one
MaxTree == 21


-----------------------------------------------------------------------------
(* Text helpers *)

NULL == <<"<NULL>">>
EMPTY == <<>>
SEP == "/"

\* Python `x or ""`
OrEmpty(x) == IF x = NULL THEN EMPTY ELSE x

\* Python truthiness of an optional string
Truthy(x) == x # NULL /\ x # EMPTY

\* the ASCII letters, upper case and lower case
UpperChars ==
    <<"A", "B", "C", "D", "E", "F", "G", "H", "I", "J", "K", "L", "M",
      "N", "O", "P", "Q", "R", "S", "T", "U", "V", "W", "X", "Y", "Z">>
LowerChars ==
    <<"a", "b", "c", "d", "e", "f", "g", "h", "i", "j", "k", "l", "m",
      "n", "o", "p", "q", "r", "s", "t", "u", "v", "w", "x", "y", "z">>

\* the lower-case letter of each upper-case letter
ToLower ==
    [c \in {UpperChars[i] : i \in 1..Len(UpperChars)} |->
        LowerChars[CHOOSE i \in 1..Len(UpperChars) : UpperChars[i] = c]]

\* str.lower() on one character
LowerChar(c) == IF c \in DOMAIN ToLower THEN ToLower[c] ELSE c

\* str.upper() on one character
UpperChar(c) ==
    IF \E i \in 1..Len(LowerChars) : LowerChars[i] = c
    THEN UpperChars[CHOOSE i \in 1..Len(LowerChars) : LowerChars[i] = c]
    ELSE c

\* str.lower()
Lower(s) == [i \in 1..Len(s) |-> LowerChar(s[i])]

\* str.startswith
StartsWith(s, prefix) ==
    /\ Len(s) >= Len(prefix)
    /\ SubSeq(s, 1, Len(prefix)) = prefix

\* s[n:] for 0 <= n
Drop(s, n) == SubSeq(s, n + 1, Len(s))

\* str.rfind(c) + 1: position of the last c, 0 when there is none
RFind(s, c) ==
    IF \E i \in 1..Len(s) : s[i] = c
    THEN CHOOSE i \in 1..Len(s) : s[i] = c /\ \A j \in (i + 1)..Len(s) : s[j] # c
    ELSE 0

\* str.rstrip(c)
RECURSIVE RStrip(_, _)
RStrip(s, c) ==
    IF s # <<>> /\ s[Len(s)] = c THEN RStrip(SubSeq(s, 1, Len(s) - 1), c) ELSE s

\* str.lstrip(c)
RECURSIVE LStrip(_, _)
LStrip(s, c) ==
    IF s # <<>> /\ Head(s) = c THEN LStrip(Tail(s), c) ELSE s

\* str.strip(): whitespace atoms removed at both ends
Strip(s) == LStrip(RStrip(s, " "), " ")

\* c in s
Contains(s, c) == \E i \in 1..Len(s) : s[i] = c

\* sep.join(list of texts)
RECURSIVE Join(_, _)
Join(sep, list) ==
    IF list = <<>> THEN <<>>
    ELSE IF Len(list) = 1 THEN list[1]
    ELSE list[1] \o sep \o Join(sep, Tail(list))

\* str(n) for n >= 0
RECURSIVE NumStr(_)
NumStr(n) ==
    LET digit(d) == <<"0", "1", "2", "3", "4", "5", "6", "7", "8", "9">>[d + 1]
    IN  IF n < 10 THEN <<digit(n)>> ELSE NumStr(n \div 10) \o <<digit(n % 10)>>

\* SQLite LIKE: % matches any run, _ any one character, ASCII letters fold case
RECURSIVE Like(_, _)
Like(s, pat) ==
    IF pat = <<>> THEN s = <<>>
    ELSE IF Head(pat) = "%"
         THEN Like(s, Tail(pat)) \/ (s # <<>> /\ Like(Tail(s), pat))
         ELSE /\ s # <<>>
              /\ (Head(pat) = "_" \/ LowerChar(Head(pat)) = LowerChar(Head(s)))
              /\ Like(Tail(s), Tail(pat))

-----------------------------------------------------------------------------
(* os.path *)

\* posixpath.normpath on an absolute path: slashes collapsed, trailing slash dropped
RECURSIVE Collapse(_)
Collapse(p) ==
    IF Len(p) < 2 THEN p
    ELSE IF p[1] = SEP /\ p[2] = SEP THEN Collapse(Tail(p))
    ELSE <<p[1]>> \o Collapse(Tail(p))

\* os.path.abspath of an absolute path
Abspath(p) ==
    LET c == Collapse(p)
        t == IF Len(c) > 1 THEN RStrip(c, SEP) ELSE c
    IN  IF Len(p) >= 2 /\ p[1] = SEP /\ p[2] = SEP /\ (Len(p) = 2 \/ p[3] # SEP)
        THEN <<SEP>> \o t
        ELSE t

\* os.path.dirname
Dirname(p) ==
    LET head == SubSeq(p, 1, RFind(p, SEP))
    IN  IF head # <<>> /\ (\E i \in 1..Len(head) : head[i] # SEP) THEN RStrip(head, SEP) ELSE head

\* os.path.basename
Basename(p) == Drop(p, RFind(p, SEP))

\* os.path.splitext(p)[1]
SplitExt(p) ==
    LET sepIndex == RFind(p, SEP)
        dotIndex == RFind(p, ".")
    IN  IF dotIndex > sepIndex
           /\ \E k \in (sepIndex + 1)..(dotIndex - 1) : p[k] # "."
        THEN Drop(p, dotIndex - 1)
        ELSE <<>>

-----------------------------------------------------------------------------
(* Paths, timestamps and texts of the model *)

P_fsroot == <<"/">>
P_r == <<"/", "r">>
P_a_ == <<"/", "r", "/", "a", "_">>
P_ab == <<"/", "r", "/", "a", "b">>
P_a == <<"/", "r", "/", "a">>
P_y == <<"/", "r", "/", "a", "_", "/", "y", ".", "m", "d">>
P_x == <<"/", "r", "/", "a", "b", "/", "x", ".", "p", "y">>

\* the directories and the files of the modelled tree
DirPaths == {P_r, P_a_, P_ab}
FilePaths == {P_y, P_x}
AllPaths == DirPaths \cup FilePaths

\* epoch timestamps handed to the upserts: the modification time of a folder
\* upserted on its own (a scan stats DiskMTime), and the one creation time
CTime == 1

\* strftime('%Y %b %d %A') of a timestamp
DateToken(t) == IF t = 1 THEN <<"2024 Jan 05 Friday">> ELSE <<"2025 Feb 01 Saturday">>

\* what a file may hold when it is read: <<content, st_mtime>>
Summaries == {<<"s1">>}
\* what open(path).read() returns during a scan or a rebuild
DiskContent(p) == IF p = P_y THEN <<"hello">> ELSE <<"deep">>

\* st_mtime of every entry during a scan
DiskMTime == 1

-----------------------------------------------------------------------------
(* Tables *)

FileRow(path, kind, ext, last_modified, creation_time, size, summary, tech_stack) ==
    [path |-> path, kind |-> kind, ext |-> ext, last_modified |-> last_modified,
     creation_time |-> creation_time, size |-> size, summary |-> summary,
     tech_stack |-> tech_stack]

IndexRow(path, kind, ext, content, summary, tech_stack, created_str, modified_str) ==
    [path |-> path, kind |-> kind, ext |-> ext, content |-> content, summary |-> summary,
     tech_stack |-> tech_stack, created_str |-> created_str, modified_str |-> modified_str]

\* SELECT ... WHERE path = ?
RowsOf(table, path) == SelectSeq(table, LAMBDA r : r.path = path)

\* DELETE FROM ... WHERE path = ?
DeleteWhere(table, path) == SelectSeq(table, LAMBDA r : r.path # path)

\* INSERT OR REPLACE on the primary key `path`
InsertOrReplace(table, row) == Append(DeleteWhere(table, row.path), row)

\* the set of paths that have a row
PathsIn(table) == {table[i].path : i \in 1..Len(table)}

\* number of rows of a path
CountOf(table, path) == Len(RowsOf(table, path))

\* the database: both tables
DB(f, x) == [files |-> f, file_index |-> x]

-----------------------------------------------------------------------------
(* Roots tracking *)

\* add_index_root: INSERT OR REPLACE INTO index_roots
\* add_index_root that puts the new root in the place of the others
add_index_root_replacing(roots, root_path) == {Abspath(root_path)}

add_index_root(roots, root_path) == roots \cup {Abspath(root_path)}

\* the root test as a raw string prefix
RootCovers_rawPrefix(r2, p) == p = r2 \/ StartsWith(p, r2)

\* the root test of get_best_root_for_path
RootCovers(r2, p) == p = r2 \/ StartsWith(p, RStrip(r2, SEP) \o <<SEP>>)

\* get_best_root_for_path: the longest matching indexed root, NULL when none
get_best_root_for_path(roots, path) ==
    LET p == Abspath(path)
        matching == {r \in roots : RootCovers(Abspath(r), p)}
    IN  IF matching = {} THEN NULL
        ELSE Abspath(CHOOSE r \in matching : \A q \in matching : Len(Abspath(q)) <= Len(Abspath(r)))

-----------------------------------------------------------------------------
(* Insert and update records *)

\* insert_file after its SELECT: the transaction that the INSERT OR REPLACE opens
\* and conn.commit() ends, writing the summary and tech_stack of `row`, the rows
\* the SELECT fetched
insert_file_write(db, path, content, last_modified, creation_time, size, row) ==
    LET summary == IF row # <<>> THEN row[1].summary ELSE NULL
        tech_stack == IF row # <<>> THEN row[1].tech_stack ELSE NULL
        ext == LStrip(Lower(SplitExt(path)), ".")
    IN  DB(InsertOrReplace(db.files,
               FileRow(path, "file", ext, last_modified, creation_time, size, summary, tech_stack)),
           Append(DeleteWhere(db.file_index, path),
               IndexRow(path, "file", ext, content, OrEmpty(summary), OrEmpty(tech_stack),
                        DateToken(creation_time), DateToken(last_modified))))

\* insert_file with nothing between its SELECT and its transaction; summary and
\* tech_stack carried forward
\* insert_file that carries no summary forward
insert_file_fresh(db, path, content, last_modified, creation_time, size) ==
    insert_file_write(db, path, content, last_modified, creation_time, size, <<>>)

insert_file(db, path, content, last_modified, creation_time, size) ==
    insert_file_write(db, path, content, last_modified, creation_time, size,
                      RowsOf(db.files, path))

\* insert_folder: one transaction; summary and tech_stack carried forward
insert_folder(db, path, last_modified, creation_time) ==
    LET row == RowsOf(db.files, path)
        summary == IF row # <<>> THEN row[1].summary ELSE NULL
        tech_stack == IF row # <<>> THEN row[1].tech_stack ELSE NULL
    IN  DB(InsertOrReplace(db.files,
               FileRow(path, "folder", EMPTY, last_modified, creation_time, 0, summary, tech_stack)),
           Append(DeleteWhere(db.file_index, path),
               IndexRow(path, "folder", EMPTY, EMPTY, OrEmpty(summary), OrEmpty(tech_stack),
                        DateToken(creation_time), DateToken(last_modified))))

\* update_tech_stack: UPDATE files only
update_tech_stack(db, path, new_stack) ==
    DB([i \in 1..Len(db.files) |->
           IF db.files[i].path = path
           THEN [db.files[i] EXCEPT !.tech_stack = new_stack]
           ELSE db.files[i]],
       db.file_index)

\* update_summary that inserts the new file_index row without deleting the old one
update_summary_keepOld(db, path, new_summary) ==
    LET row == RowsOf(db.file_index, path)
    IN  DB([i \in 1..Len(db.files) |->
               IF db.files[i].path = path
               THEN [db.files[i] EXCEPT !.summary = new_summary]
               ELSE db.files[i]],
           Append(db.file_index,
               IF row # <<>>
               THEN IndexRow(path, row[1].kind, row[1].ext, row[1].content, new_summary,
                             row[1].tech_stack, row[1].created_str, row[1].modified_str)
               ELSE IndexRow(path, "file", EMPTY, EMPTY, new_summary, EMPTY, EMPTY, EMPTY)))

\* update_summary: UPDATE files, then rewrite (or create) the file_index row
update_summary(db, path, new_summary) ==
    LET newFiles == [i \in 1..Len(db.files) |->
                        IF db.files[i].path = path
                        THEN [db.files[i] EXCEPT !.summary = new_summary]
                        ELSE db.files[i]]
        row == RowsOf(db.file_index, path)
        meta == RowsOf(db.files, path)
        kind == IF meta # <<>> THEN meta[1].kind ELSE "file"
        ext == IF meta # <<>> THEN meta[1].ext ELSE EMPTY
    IN  DB(newFiles,
           IF row # <<>>
           THEN Append(DeleteWhere(db.file_index, path),
                    IndexRow(path, row[1].kind, row[1].ext, row[1].content, new_summary,
                             row[1].tech_stack, row[1].created_str, row[1].modified_str))
           ELSE Append(db.file_index,
                    IndexRow(path, kind, ext, EMPTY, new_summary, EMPTY, EMPTY, EMPTY)))

\* get_summary (database.py)
get_summary(db, path) ==
    IF RowsOf(db.files, path) # <<>> THEN RowsOf(db.files, path)[1].summary ELSE NULL

-----------------------------------------------------------------------------
(* Folder aggregation *)

\* the default and only value passed for max_children
MaxChildren == 60

\* s[:i] \o s[i+1:]
RemoveAt(s, i) == SubSeq(s, 1, i - 1) \o SubSeq(s, i + 1, Len(s))

\* sorted by count, largest first, ties in insertion order
RECURSIVE SortByCount(_)
SortByCount(cnt) ==
    IF cnt = <<>> THEN <<>>
    ELSE LET m == CHOOSE i \in 1..Len(cnt) :
                      /\ \A j \in 1..Len(cnt) : cnt[j][2] <= cnt[i][2]
                      /\ \A j \in 1..(i - 1) : cnt[j][2] < cnt[i][2]
         IN  <<cnt[m]>> \o SortByCount(RemoveAt(cnt, m))

\* Counter.most_common(n)
MostCommon(cnt, n) == SubSeq(SortByCount(cnt), 1, IF Len(cnt) < n THEN Len(cnt) ELSE n)

\* the extension -> label table of _infer_stack_from_ext
StackMapping ==
    << <<<<"p", "y">>, <<"Python">>>>,
       <<<<"j", "s">>, <<"JavaScript">>>>,
       <<<<"t", "s">>, <<"TypeScript">>>>,
       <<<<"t", "s", "x">>, <<"React, TypeScript">>>>,
       <<<<"j", "s", "x">>, <<"React, JavaScript">>>>,
       <<<<"s", "q", "l">>, <<"SQL">>>>,
       <<<<"j", "s", "o", "n">>, <<"JSON">>>>,
       <<<<"m", "d">>, <<"Markdown">>>>,
       <<<<"c", "s", "v">>, <<"CSV">>>>,
       <<<<"y", "m", "l">>, <<"YAML">>>>,
       <<<<"y", "a", "m", "l">>, <<"YAML">>>>,
       <<<<"s", "w", "i", "f", "t">>, <<"Swift">>>>,
       <<<<"h", "t", "m", "l">>, <<"HTML">>>>,
       <<<<"c", "s", "s">>, <<"CSS">>>>,
       <<<<"s", "h">>, <<"Shell">>>>,
       <<<<"e", "n", "v">>, <<"Env">>>>,
       <<<<"c", "o", "n", "f", "i", "g">>, <<"Config">>>> >>

\* duplicates removed, first occurrence kept
RECURSIVE DedupSeq(_)
DedupSeq(s) ==
    IF s = <<>> THEN <<>>
    ELSE LET init == DedupSeq(SubSeq(s, 1, Len(s) - 1))
             x == s[Len(s)]
         IN  IF \E i \in 1..Len(init) : init[i] = x THEN init ELSE Append(init, x)

\* _infer_stack_from_ext
_infer_stack_from_ext(ext_counts) ==
    LET common == SelectSeq(MostCommon(ext_counts, 12), LAMBDA kv : kv[1] # EMPTY)
        \* mapping.get(ext.lower(), ext.upper())
        Label(ext) ==
            IF \E i \in 1..Len(StackMapping) : StackMapping[i][1] = Lower(ext)
            THEN StackMapping[CHOOSE i \in 1..Len(StackMapping) : StackMapping[i][1] = Lower(ext)][2]
            ELSE [i \in 1..Len(ext) |-> UpperChar(ext[i])]
    IN  DedupSeq([i \in 1..Len(common) |-> Label(common[i][1])])

\* the two SQL SELECTs of _fetch_children_rows
LikeRows(table, folder_path) ==
    LET base == RStrip(folder_path, SEP) \o <<SEP>>
    IN  SelectSeq(table, LAMBDA r : Like(r.path, base \o <<"%">>) /\ r.path # folder_path)

\* _fetch_children_rows
_fetch_children_rows(table, folder_path, recursive) ==
    IF recursive
    THEN LikeRows(table, folder_path)
    ELSE LET base == RStrip(folder_path, SEP) \o <<SEP>>
             \* the Python filter: the rest of the path holds no separator
             Direct(rel) == rel # <<>> /\ ~Contains(rel, SEP)
         IN  SelectSeq(LikeRows(table, folder_path), LAMBDA r : Direct(Drop(r.path, Len(base))))

\* s[:n] with the slice forgotten
Take_all(s, n) == s

\* s[:n]
Take(s, n) == SubSeq(s, 1, IF Len(s) < n THEN Len(s) ELSE n)

\* ext_counts of _compute_folder_stats: the extensions of the rows that are not folders
RECURSIVE ExtCounts(_)
ExtCounts(rows) ==
    IF rows = <<>> THEN <<>>
    ELSE LET init == ExtCounts(SubSeq(rows, 1, Len(rows) - 1))
             r == rows[Len(rows)]
             \* Counter[e] += 1, keys in first-insertion order
             Add(cnt, e) ==
                 IF \E i \in 1..Len(cnt) : cnt[i][1] = e
                 THEN [i \in 1..Len(cnt) |-> IF cnt[i][1] = e THEN <<e, cnt[i][2] + 1>> ELSE cnt[i]]
                 ELSE Append(cnt, <<e, 1>>)
         IN  IF r.kind = "folder" THEN init ELSE Add(init, OrEmpty(r.ext))

\* _compute_folder_stats
_compute_folder_stats(rows, max_children) ==
    LET folder_count == Len(SelectSeq(rows, LAMBDA r : r.kind = "folder"))
        file_count == Len(rows) - folder_count
        ext_counts == ExtCounts(rows)
        filenames == [i \in 1..Len(rows) |-> Basename(rows[i].path)]
        withSummary == SelectSeq(rows, LAMBDA r : Strip(OrEmpty(r.summary)) # EMPTY)
        summary_bits == [i \in 1..Len(withSummary) |->
                            Basename(withSummary[i].path) \o <<": ">>
                                \o Strip(OrEmpty(withSummary[i].summary))]
        inferred == _infer_stack_from_ext(ext_counts)
        tech_stack == IF inferred # <<>> THEN Join(<<", ">>, inferred) ELSE <<"Mixed">>
        top == SelectSeq(MostCommon(ext_counts, 5), LAMBDA kv : kv[1] # EMPTY)
        top_ext == Join(<<", ">>, [i \in 1..Len(top) |-> top[i][1] \o <<":">> \o NumStr(top[i][2])])
        head == <<"Folder with ">> \o NumStr(file_count) \o <<" files and ">>
                    \o NumStr(folder_count) \o <<" subfolders.">>
        summary == IF top_ext # <<>> THEN head \o <<" Top types: ">> \o top_ext \o <<".">> ELSE head
        limited_names == Join(<<" ">>, Take(filenames, max_children))
        limited_summaries == Join(<<" ">>, Take(summary_bits, max_children))
        content == Strip(summary \o <<" ">> \o limited_names \o <<" ">> \o limited_summaries)
    IN  [summary |-> summary, tech_stack |-> tech_stack, content |-> content]

\* update_folder_aggregate that writes nothing
update_folder_aggregate_skip(db, folder, max_children) == db

\* update_folder_aggregate that writes the index row without the date tokens of the old one
update_folder_aggregate_noDates(db, folder, max_children) ==
    LET folder_path == Abspath(folder)
        direct == _compute_folder_stats(_fetch_children_rows(db.files, folder_path, FALSE), max_children)
        rec == _compute_folder_stats(_fetch_children_rows(db.files, folder_path, TRUE), max_children)
    IN  DB([i \in 1..Len(db.files) |->
               IF db.files[i].path = folder_path
               THEN [db.files[i] EXCEPT !.summary = direct.summary, !.tech_stack = direct.tech_stack]
               ELSE db.files[i]],
           Append(DeleteWhere(db.file_index, folder_path),
               IndexRow(folder_path, "folder", EMPTY, rec.content, rec.summary, rec.tech_stack,
                        EMPTY, EMPTY)))

\* update_folder_aggregate: direct statistics to the Registry, recursive ones to the index
update_folder_aggregate(db, folder, max_children) ==
    LET folder_path == Abspath(folder)
        direct == _compute_folder_stats(_fetch_children_rows(db.files, folder_path, FALSE), max_children)
        rec == _compute_folder_stats(_fetch_children_rows(db.files, folder_path, TRUE), max_children)
        meta == RowsOf(db.file_index, folder_path)
        created_str == IF meta # <<>> THEN meta[1].created_str ELSE EMPTY
        modified_str == IF meta # <<>> THEN meta[1].modified_str ELSE EMPTY
    IN  DB([i \in 1..Len(db.files) |->
               IF db.files[i].path = folder_path
               THEN [db.files[i] EXCEPT !.summary = direct.summary, !.tech_stack = direct.tech_stack]
               ELSE db.files[i]],
           Append(DeleteWhere(db.file_index, folder_path),
               IndexRow(folder_path, "folder", EMPTY, rec.content, rec.summary, rec.tech_stack,
                        created_str, modified_str)))

\* os.path.isdir
IsDir(d, p) == p = P_fsroot \/ (p \in d /\ p \in DirPaths)

\* the first folder the upward walk looks at
UpTreeStart(d, path) == IF IsDir(d, Abspath(path)) THEN Abspath(path) ELSE Dirname(Abspath(path))

\* the loop of update_folder_aggregate_up_tree from `current` on; the process
\* dies when a commit is due and `commits` (the commits it lives for) is 0
RECURSIVE UpTreeWalk(_, _, _, _)
UpTreeWalk(db, current, stop, commits) ==
    IF current = <<>> \/ current = Dirname(current) THEN db
    ELSE LET meta == RowsOf(db.files, current)
             isFolder == meta # <<>> /\ meta[1].kind = "folder"
         IN  IF isFolder /\ commits = 0 THEN db
             ELSE LET db2 == IF isFolder THEN update_folder_aggregate(db, current, MaxChildren) ELSE db
                      left == IF isFolder THEN commits - 1 ELSE commits
                  IN  IF stop # NULL /\ Abspath(current) = stop
                      THEN db2
                      ELSE UpTreeWalk(db2, Dirname(current), stop, left)

\* update_folder_aggregate_up_tree, living for at most `commits` commits
update_folder_aggregate_up_tree(db, d, path, stop_at, commits) ==
    UpTreeWalk(db, UpTreeStart(d, path), IF Truthy(stop_at) THEN Abspath(stop_at) ELSE NULL, commits)

\* the registered folders the upward walk passes, nearest first
RECURSIVE UpTreeFolders(_, _, _)
UpTreeFolders(table, current, stop) ==
    IF current = <<>> \/ current = Dirname(current) THEN <<>>
    ELSE LET meta == RowsOf(table, current)
             here == IF meta # <<>> /\ meta[1].kind = "folder" THEN <<current>> ELSE <<>>
         IN  IF stop # NULL /\ Abspath(current) = stop
             THEN here
             ELSE here \o UpTreeFolders(table, Dirname(current), stop)

-----------------------------------------------------------------------------
(* Scanner (indexer.py) *)

\* SUPPORTED_EXTS, each with its dot
SUPPORTED_EXTS ==
    { <<".", "t", "x", "t">>, <<".", "m", "d">>, <<".", "p", "y">>, <<".", "s", "w", "i", "f", "t">>,
      <<".", "j", "s", "o", "n">>, <<".", "j", "s">>, <<".", "t", "s">>, <<".", "t", "s", "x">>,
      <<".", "j", "s", "x">>, <<".", "c", "s", "s">>, <<".", "h", "t", "m", "l">>,
      <<".", "s", "q", "l">>, <<".", "c", "s", "v">>, <<".", "y", "a", "m", "l">>,
      <<".", "y", "m", "l">>, <<".", "s", "h">>, <<".", "c", "o", "n", "f", "i", "g">>,
      <<".", "e", "n", "v">> }

\* name.startswith('.')
Hidden(p) == Basename(p) # <<>> /\ Head(Basename(p)) = "."

\* os.walk(root), top-down, hidden directories pruned: the directories in visit
\* order, each followed by the files of it that the scanner indexes
RECURSIVE WalkFrom(_, _, _), WalkEach(_, _, _)
WalkFrom(d, dir, listing) ==
    LET entries == SelectSeq(listing, LAMBDA p : p \in d /\ p # dir /\ Dirname(p) = dir)
        dirs == SelectSeq(entries, LAMBDA p : IsDir(d, p) /\ ~Hidden(p))
        fileEntries == SelectSeq(entries, LAMBDA p : ~IsDir(d, p) /\ ~Hidden(p)
                                                  /\ Lower(SplitExt(p)) \in SUPPORTED_EXTS)
    IN  <<dir>> \o fileEntries \o WalkEach(d, dirs, listing)
WalkEach(d, dirs, listing) ==
    IF dirs = <<>> THEN <<>> ELSE WalkFrom(d, Head(dirs), listing) \o WalkEach(d, Tail(dirs), listing)

\* the insert_folder / process_file calls of the traversal, in order; the entry
\* of `fault` is left unwritten when its stat, its read or its storage fails
RECURSIVE IndexEntries(_, _, _, _)
IndexEntries(db, d, entries, fault) ==
    IF entries = <<>> THEN db
    ELSE LET p == Head(entries)
             db2 == IF fault.path = p /\ fault.kind \in {"stat", "read", "storage"}
                    THEN db
                    ELSE IF IsDir(d, p)
                    THEN insert_folder(db, Abspath(p), DiskMTime, CTime)
                    ELSE insert_file(db, Abspath(p), DiskContent(p), DiskMTime, CTime, 1)
         IN  IF db2 = db
             THEN IndexEntries(db, d, Tail(entries), fault)
             ELSE IndexEntries(db2, d, Tail(entries), fault)

\* the list left in the order of the walk
SortByLenDesc_asWalked(s) == s

\* list.sort(key=len, reverse=True): longest first, equal lengths in list order
RECURSIVE SortByLenDesc(_)
SortByLenDesc(s) ==
    IF s = <<>> THEN <<>>
    ELSE LET m == CHOOSE i \in 1..Len(s) :
                      /\ \A j \in 1..Len(s) : Len(s[j]) <= Len(s[i])
                      /\ \A j \in 1..(i - 1) : Len(s[j]) < Len(s[i])
         IN  <<s[m]>> \o SortByLenDesc(RemoveAt(s, m))

\* update_folder_aggregate on each folder of a list, one commit each
RECURSIVE AggregateAll(_, _)
AggregateAll(db, folders) ==
    IF folders = <<>> THEN db
    ELSE AggregateAll(update_folder_aggregate(db, Head(folders), MaxChildren), Tail(folders))

\* scan_directory: the database after the traversal and the bottom-up sweep, the
\* count it returns, its folders_seen and the folders in the order in which the
\* sweep ran update_folder_aggregate on them without failure. `fault` is the one
\* entry that fails and how: os.stat raises (stat), open or read raises (read),
\* the upsert's SQL raises inside insert_file or insert_folder (storage), or
\* update_folder_aggregate raises (aggregate)
scan_directory(db, d, root_path, listing, fault) ==
    LET root == Abspath(root_path)
        walk == IF IsDir(d, root) THEN WalkFrom(d, root, listing) ELSE <<>>
        folders_seen == SelectSeq(walk, LAMBDA p :
                            IsDir(d, p) /\ ~(fault.path = p /\ fault.kind = "stat"))
        counted == SelectSeq(walk, LAMBDA p :
                            ~IsDir(d, p) /\ ~(fault.path = p /\ fault.kind \in {"stat", "read"}))
        swept == SelectSeq(SortByLenDesc(folders_seen), LAMBDA p :
                            ~(fault.path = p /\ fault.kind = "aggregate"))
    IN  [db |-> AggregateAll(IndexEntries(db, d, walk, fault), swept),
         count |-> Len(counted),
         folders_seen |-> folders_seen,
         swept |-> swept]

\* rebuild_fts_index that writes the rows without dropping the index first
rebuild_fts_index_noDrop(db, d) ==
    DB(db.files,
       db.file_index \o
       [i \in 1..Len(db.files) |->
           LET r == db.files[i]
           IN  IndexRow(r.path, r.kind, OrEmpty(r.ext),
                        IF r.kind = "file" /\ r.path \in d /\ ~IsDir(d, r.path)
                        THEN DiskContent(r.path) ELSE EMPTY,
                        OrEmpty(r.summary), OrEmpty(r.tech_stack),
                        DateToken(r.creation_time), DateToken(r.last_modified))])

\* rebuild_fts_index: the index dropped and rewritten from the Registry rows
rebuild_fts_index(db, d) ==
    DB(db.files,
       [i \in 1..Len(db.files) |->
           LET r == db.files[i]
           IN  IndexRow(r.path, r.kind, OrEmpty(r.ext),
                        IF r.kind = "file" /\ r.path \in d /\ ~IsDir(d, r.path)
                        THEN DiskContent(r.path) ELSE EMPTY,
                        OrEmpty(r.summary), OrEmpty(r.tech_stack),
                        DateToken(r.creation_time), DateToken(r.last_modified))])

-----------------------------------------------------------------------------
(* Query text (ai.py, database.py): a query and a filter are the sequences *)
(* of their characters                                                     *)

WhiteChars == {" "}

\* the character U+0060, which code fences are made of
BackTick == "<backtick>"

\* the ASCII punctuation (regex [^\w\s]) that queries and filters are made of
PunctChars ==
    {BackTick, "!", "\"", "#", "$", "%", "&", "'", "(", ")", "*", "+", ",", "-", ".", "/", ":", ";",
     "<", "=", ">", "?", "@", "[", "]", "^", "{", "|", "}", "~"}
Digits == {"0", "1", "2", "3", "4", "5", "6", "7", "8", "9"}

\* regex \w
IsWordChar(c) == c \notin (WhiteChars \cup PunctChars)

\* s[i-1 : i-1+n], empty when it runs past the end
Mid(s, i, n) == IF i >= 1 /\ i + n - 1 <= Len(s) THEN SubSeq(s, i, i + n - 1) ELSE <<>>

\* sub in s
InStr(sub, s) == \E i \in 1..(Len(s) - Len(sub) + 1) : SubSeq(s, i, i + Len(sub) - 1) = sub

\* any(t in s for t in list)
AnyIn(list, s) == \E i \in 1..Len(list) : InStr(list[i], s)

\* regex \b between s[i-1] and s[i]
WordBoundary(s, i) ==
    (i >= 1 /\ i <= Len(s) /\ IsWordChar(s[i])) # (i >= 2 /\ i - 1 <= Len(s) /\ IsWordChar(s[i - 1]))

\* index of the first non-whitespace character at or after i
RECURSIVE SkipWhite(_, _)
SkipWhite(s, i) == IF i <= Len(s) /\ s[i] \in WhiteChars THEN SkipWhite(s, i + 1) ELSE i

\* regex 20\d{2}, the whole of t
IsYear(t) == Len(t) = 4 /\ t[1] = "2" /\ t[2] = "0" /\ t[3] \in Digits /\ t[4] \in Digits

\* str.split(): the whitespace-separated words
RECURSIVE Split(_)
Split(s) ==
    LET i == SkipWhite(s, 1)
        rest == Drop(s, i - 1)
        ends == {j \in 1..Len(rest) : rest[j] \in WhiteChars}
        n == IF ends = {} THEN Len(rest) ELSE (CHOOSE j \in ends : \A k \in ends : j <= k) - 1
    IN  IF rest = <<>> THEN <<>> ELSE <<SubSeq(rest, 1, n)>> \o Split(Drop(rest, n))

\* clean_string: punctuation to spaces, then strip
clean_string(s) ==
    IF ~Truthy(s) THEN EMPTY
    ELSE Strip([i \in 1..Len(s) |-> IF s[i] \in PunctChars THEN " " ELSE s[i]])

-----------------------------------------------------------------------------
(* Intent cache and rules (ai.py) *)

_INTENT_CACHE_TTL_SEC == 120

\* _cache_get that never looks at the expiry time
_cache_get_noExpiry(cache, key, now) ==
    IF key \notin DOMAIN cache THEN [value |-> NULL, cache |-> cache]
    ELSE [value |-> cache[key].value, cache |-> cache]

\* _cache_get: the value (NULL for a miss) and the cache it leaves; an entry past
\* its expiry time is popped
_cache_get(cache, key, now) ==
    IF key \notin DOMAIN cache THEN [value |-> NULL, cache |-> cache]
    ELSE IF now > cache[key].expires
         THEN [value |-> NULL, cache |-> [k \in DOMAIN cache \ {key} |-> cache[k]]]
         ELSE [value |-> cache[key].value, cache |-> cache]

_cache_set(cache, key, value, now) ==
    [k \in DOMAIN cache \cup {key} |->
        IF k = key THEN [value |-> value, expires |-> now + _INTENT_CACHE_TTL_SEC] ELSE cache[k]]

\* the year filter both year rules and the date guard emit
YearClause(y) == <<"(", "c", "r", "e", "a", "t", "e", "d", "_", "s", "t", "r", ":", "\"">> \o y \o <<"\"", " ", "O", "R", " ", "m", "o", "d", "i", "f", "i", "e", "d", "_", "s", "t", "r", ":", "\"">> \o y \o <<"\"", ")">>

BudgetClause == <<"(", "p", "a", "t", "h", ":", "b", "u", "d", "g", "e", "t", "*", " ", "O", "R", " ", "c", "o", "n", "t", "e", "n", "t", ":", "b", "u", "d", "g", "e", "t", " ", "O", "R", " ", "s", "u", "m", "m", "a", "r", "y", ":", "b", "u", "d", "g", "e", "t", " ", "O", "R", " ", "e", "x", "t", ":", "c", "s", "v", " ", "O", "R", " ", "e", "x", "t", ":", "m", "d", ")">>

\* group 1 of the leftmost match, NULL when there is none
YearRule(q, word) ==
    LET \* re.search(r"\bfiles\s+<word>\s+(20\d{2})\b", q) tried at position i
        At(i, j, k) ==
            /\ WordBoundary(q, i)
            /\ Mid(q, i, 5) = <<"f", "i", "l", "e", "s">>
            /\ j > i + 5
            /\ Mid(q, j, Len(word)) = word
            /\ k > j + Len(word)
            /\ IsYear(Mid(q, k, 4))
            /\ WordBoundary(q, k + 4)
        hits == {i \in 1..Len(q) :
                    At(i, SkipWhite(q, i + 5), SkipWhite(q, SkipWhite(q, i + 5) + Len(word)))}
        i == CHOOSE h \in hits : \A g \in hits : h <= g
    IN  IF hits = {} THEN NULL ELSE Mid(q, SkipWhite(q, SkipWhite(q, i + 5) + Len(word)), 4)

_rule_based_intent(user_query) ==
    LET q == Lower(Strip(OrEmpty(user_query)))
    IN  IF YearRule(q, <<"f", "r", "o", "m">>) # NULL THEN YearClause(YearRule(q, <<"f", "r", "o", "m">>))
        ELSE IF YearRule(q, <<"i", "n">>) # NULL THEN YearClause(YearRule(q, <<"i", "n">>))
        ELSE IF q \in {<<"b", "u", "d", "g", "e", "t", " ", "f", "i", "l", "e", "s">>, <<"b", "u", "d", "g", "e", "t", " ", "f", "i", "l", "e">>} THEN BudgetClause
        ELSE NULL

-----------------------------------------------------------------------------
(* Query builder (ai.py) *)

MonthWords ==
    <<<<"j", "a", "n">>, <<"f", "e", "b">>, <<"m", "a", "r">>, <<"a", "p", "r">>, <<"m", "a", "y">>, <<"j", "u", "n">>, <<"j", "u", "l">>, <<"a", "u", "g">>, <<"s", "e", "p">>, <<"o", "c", "t">>, <<"n", "o", "v">>, <<"d", "e", "c">>>>

\* re.search(r"\b(20\d{2})\b", s): group 1 of the leftmost match, NULL when none
YearSearch(s) ==
    LET hits == {i \in 1..Len(s) : IsYear(Mid(s, i, 4)) /\ WordBoundary(s, i) /\ WordBoundary(s, i + 4)}
    IN  IF hits = {} THEN NULL ELSE Mid(s, CHOOSE h \in hits : \A g \in hits : h <= g, 4)

\* a field of the decoded answer that is present and not the word null
FieldGiven(raw) == Truthy(raw) /\ Lower(raw) # <<"n", "u", "l", "l">>

\* build_fts_query, part 1: the date clause
DateParts(data, oq) ==
    LET Clause(date_str) ==
            <<<<"(", "c", "r", "e", "a", "t", "e", "d", "_", "s", "t", "r", ":", "\"">> \o date_str \o <<"\"", " ", "O", "R", " ", "m", "o", "d", "i", "f", "i", "e", "d", "_", "s", "t", "r", ":", "\"">> \o date_str \o <<"\"", ")">>>>
        DateStr(val) ==
            \* strftime("%Y %b %d") of yesterday, of today, a bare year as it is,
            \* else what dateutil.parser.parse reads, val itself when it does not parse
            Clause(IF InStr(<<"y", "e", "s", "t", "e", "r", "d", "a", "y">>, val) THEN <<"<yesterday>">>
                   ELSE IF InStr(<<"t", "o", "d", "a", "y">>, val) THEN <<"<today>">>
                   ELSE IF IsYear(val) THEN val
                   ELSE IF val = <<"2", "0", "2", "4", "-", "0", "1", "-", "0", "5">> THEN <<"2", "0", "2", "4", " ", "J", "a", "n", " ", "0", "5">>
                   ELSE val)
        Year(year) ==
            IF year # NULL /\ ~AnyIn(MonthWords, oq) /\ ~InStr(<<"t", "o", "d", "a", "y">>, oq) /\ ~InStr(<<"y", "e", "s", "t", "e", "r", "d", "a", "y">>, oq)
            THEN <<YearClause(year)>>
            ELSE IF FieldGiven(data.date_filter) THEN DateStr(Lower(data.date_filter))
            ELSE <<>>
        time_triggers == <<<<"t", "o", "d", "a", "y">>, <<"y", "e", "s", "t", "e", "r", "d", "a", "y">>, <<"w", "e", "e", "k">>, <<"m", "o", "n", "t", "h">>, <<"y", "e", "a", "r">>, <<"2", "0", "2">>>> \o MonthWords
    IN  IF ~AnyIn(time_triggers, oq) THEN <<>> ELSE Year(YearSearch(oq))

ext_map ==
    <<<<<<"p", "y", "t", "h", "o", "n">>, <<"p", "y">>>>, <<<<"j", "a", "v", "a", "s", "c", "r", "i", "p", "t">>, <<"j", "s">>>>, <<<<"t", "y", "p", "e", "s", "c", "r", "i", "p", "t">>, <<"t", "s">>>>, <<<<"r", "e", "a", "c", "t">>, <<"t", "s", "x">>>>,
      <<<<"t", "s", "x">>, <<"t", "s", "x">>>>, <<<<"j", "s", "x">>, <<"j", "s", "x">>>>, <<<<"s", "q", "l">>, <<"s", "q", "l">>>>, <<<<"c", "s", "v">>, <<"c", "s", "v">>>>,
      <<<<"m", "a", "r", "k", "d", "o", "w", "n">>, <<"m", "d">>>>, <<<<"j", "s", "o", "n">>, <<"j", "s", "o", "n">>>>, <<<<"y", "a", "m", "l">>, <<"y", "m", "l">>>>>>

\* dict lookup in a list of (key, value) pairs, NULL when the key is missing
Lookup(pairs, key) ==
    IF \E i \in 1..Len(pairs) : pairs[i][1] = key
    THEN pairs[CHOOSE i \in 1..Len(pairs) : pairs[i][1] = key][2]
    ELSE NULL

\* tech_val of build_fts_query, NULL when no tech filter is given
TechVal(data) == IF FieldGiven(data.tech_filter) THEN clean_string(data.tech_filter) ELSE NULL

\* build_fts_query, part 2: the tech clause
TechParts(data) ==
    LET Clauses(tech_val, ext_tok) ==
            <<<<"c", "o", "n", "t", "e", "n", "t", ":">> \o tech_val, <<"p", "a", "t", "h", ":">> \o tech_val>>
            \o (IF ext_tok # NULL
                THEN <<<<"e", "x", "t", ":">> \o ext_tok, <<"p", "a", "t", "h", ":">> \o ext_tok, <<"p", "a", "t", "h", ":">> \o ext_tok \o <<"*">>>>
                ELSE <<>>)
        Part(tech_val) ==
            IF tech_val = NULL THEN <<>>
            ELSE <<<<"(">> \o Join(<<" ", "O", "R", " ">>, Clauses(tech_val, Lookup(ext_map, Lower(tech_val)))) \o <<")">>>>
    IN  Part(TechVal(data))

fillers ==
    <<<<"f", "i", "l", "e", "s">>, <<"f", "i", "l", "e">>, <<"m", "a", "d", "e">>, <<"c", "r", "e", "a", "t", "e", "d">>, <<"m", "o", "d", "i", "f", "i", "e", "d">>, <<"s", "c", "r", "i", "p", "t", "s">>, <<"s", "c", "r", "i", "p", "t">>, <<"d", "o", "c", "u", "m", "e", "n", "t", "s">>,
      <<"d", "o", "c", "u", "m", "e", "n", "t">>, <<"s", "h", "o", "w">>, <<"m", "e">>, <<"f", "i", "n", "d">>, <<"g", "i", "v", "e">>, <<"l", "i", "s", "t">>, <<"m", "a", "i", "n">>, <<"c", "o", "m", "p", "o", "n", "e", "n", "t", "s">>, <<"c", "o", "m", "p", "o", "n", "e", "n", "t">>,
      <<"a", "p", "p">>, <<"f", "r", "o", "m">>, <<"i", "n">>, <<"o", "n">>, <<"o", "f">>, <<"t", "h", "e">>, <<"a">>, <<"a", "n">>, <<"t", "o", "d", "a", "y">>, <<"y", "e", "s", "t", "e", "r", "d", "a", "y">>, <<"t", "o", "m", "o", "r", "r", "o", "w">>,
      <<"w", "e", "e", "k">>, <<"m", "o", "n", "t", "h">>, <<"y", "e", "a", "r">>>> \o MonthWords

\* build_fts_query, part 3: the keyword clause
KeywordParts(data) ==
    LET Clause(final_kw) ==
            IF Len(Split(final_kw)) = 1
            THEN <<<<"(", "p", "a", "t", "h", ":">> \o final_kw \o <<"*", " ", "O", "R", " ", "e", "x", "t", ":">> \o final_kw \o <<" ", "O", "R", " ", "c", "o", "n", "t", "e", "n", "t", ":">> \o final_kw
                   \o <<" ", "O", "R", " ", "s", "u", "m", "m", "a", "r", "y", ":">> \o final_kw \o <<")">>>>
            ELSE <<<<"(", "c", "o", "n", "t", "e", "n", "t", ":">> \o final_kw \o <<" ", "O", "R", " ", "s", "u", "m", "m", "a", "r", "y", ":">> \o final_kw \o <<" ", "O", "R", " ", "p", "a", "t", "h", ":">> \o final_kw
                   \o <<"*", ")">>>>
        Kept(clean_words) ==
            IF clean_words = <<>> THEN <<>> ELSE Clause(Join(<<" ">>, clean_words))
        Without(stop) ==
            Kept(SelectSeq(Split(clean_string(data.keywords)), LAMBDA w : \A i \in 1..Len(stop) : stop[i] # Lower(w)))
        Stop(tech_val) ==
            IF Truthy(tech_val) THEN Append(fillers, Lower(tech_val)) ELSE fillers
    IN  IF ~FieldGiven(data.keywords) THEN <<>> ELSE Without(Stop(TechVal(data)))

\* build_fts_query with the keyword clause put first
build_fts_query_keywordsFirst(data, original_query) ==
    LET Joined(parts) ==
            IF parts = <<>> THEN EMPTY ELSE Join(<<" ", "A", "N", "D", " ">>, DedupSeq(parts))
    IN  Joined(KeywordParts(data) \o DateParts(data, Lower(OrEmpty(original_query))) \o TechParts(data))

\* build_fts_query: the clauses, exact duplicates removed, joined by AND
build_fts_query(data, original_query) ==
    LET Joined(parts) ==
            IF parts = <<>> THEN EMPTY ELSE Join(<<" ", "A", "N", "D", " ">>, DedupSeq(parts))
    IN  Joined(DateParts(data, Lower(OrEmpty(original_query))) \o TechParts(data) \o KeywordParts(data))

-----------------------------------------------------------------------------
(* Intent resolution (ai.py) *)

NoIntent == [date_filter |-> NULL, tech_filter |-> NULL, keywords |-> NULL]

\* what the collaborator's chat call does: it raises (error, timeout), or it
\* answers with a text: empty, prose without a brace block, a brace block that
\* json.loads rejects (data: the fields _regex_extract_intent finds in it), or
\* a brace block json.loads decodes (data: its fields)
Answer(kind, data) == [kind |-> kind, data |-> data]

Answers ==
    {Answer("raise", NoIntent), Answer("empty", NoIntent), Answer("prose", NoIntent),
     Answer("malformed", NoIntent)}
    \cup {Answer("json", d) :
             d \in {NoIntent,
                    [NoIntent EXCEPT !.keywords = <<"a", "b">>],
                    [NoIntent EXCEPT !.date_filter = <<"y", "e", "s", "t", "e", "r", "d", "a", "y">>, !.tech_filter = <<"p", "y", "t", "h", "o", "n">>,
                                     !.keywords = <<"a", "%", " ", "f", "i", "l", "e", "s">>]}}

\* seconds the collaborator call takes
AiLatencies == {1}

\* parse_search_intent without its except clause: the exception leaves the function
intent_except_reraise(user_query) == [raised |-> TRUE, final |-> NULL]

\* parse_search_intent, the except clause around the collaborator call and the
\* decoding: the fallback filter, nothing raised
intent_except(user_query) == [raised |-> FALSE, final |-> clean_string(user_query)]

\* parse_search_intent from the collaborator call on: the filter it ends with
intent_from_answer(user_query, answer) ==
    LET Final(built) == IF built = EMPTY THEN clean_string(user_query) ELSE built
    IN  IF answer.kind = "raise" THEN intent_except(user_query)
        ELSE IF answer.kind \in {"json", "malformed"}
             THEN [raised |-> FALSE, final |-> Final(build_fts_query(answer.data, user_query))]
        ELSE [raised |-> FALSE, final |-> clean_string(user_query)]

\* one resolution: what the lookup found, where the value came from, the number
\* of collaborator calls, the cache and the clock it leaves
Resolution(query, at, found, source, value, calls, cache, now, raised) ==
    [query |-> query, at |-> at, found |-> found, source |-> source, value |-> value,
     calls |-> calls, cache |-> cache, now |-> now, raised |-> raised]

parse_search_intent(cache, now, user_query, answer, latency) ==
    LET Entry_state(normalized) ==
            IF normalized \notin DOMAIN cache THEN "none"
            ELSE IF now > cache[normalized].expires THEN "expired" ELSE "live"
        Decoded(normalized, found, left, out, done) ==
            IF out.raised
            THEN Resolution(user_query, now, found, "collaborator", NULL, 1, left, done, TRUE)
            ELSE Resolution(user_query, now, found, "collaborator", out.final, 1,
                            _cache_set(left, normalized, out.final, done), done, FALSE)
        Missed(normalized, found, left, ruled) ==
            IF Truthy(ruled)
            THEN Resolution(user_query, now, found, "rule", ruled, 0,
                            _cache_set(left, normalized, ruled, now), now, FALSE)
            ELSE Decoded(normalized, found, left, intent_from_answer(user_query, answer),
                         now + latency)
        Looked(normalized, found, got) ==
            IF got.value # NULL
            THEN Resolution(user_query, now, found, "cache", got.value, 0, got.cache, now, FALSE)
            ELSE Missed(normalized, found, got.cache, _rule_based_intent(user_query))
        Keyed(normalized) ==
            Looked(normalized, Entry_state(normalized), _cache_get(cache, normalized, now))
    IN  Keyed(clean_string(Lower(OrEmpty(user_query))))

-----------------------------------------------------------------------------
(* Search (database.py, server.py) *)

\* LIMIT of the path sub-queries, LIMIT of the alias and full-text queries, and
\* the cap on the returned list
PathLimit == 10
MatchLimit == 20
ResultCap == 20

Entry(path, kind, snippet) == [path |-> path, kind |-> kind, snippet |-> snippet]

\* SELECT ... FROM file_index WHERE path LIKE '%' || pat || '%' LIMIT 10
PathLikeRows(index, pat) ==
    Take(SelectSeq(index, LAMBDA r : Like(r.path, <<"%">> \o pat \o <<"%">>)), PathLimit)

\* the character class [A-Za-z0-9_\-\.]
TokChar(c) == IsWordChar(c) \/ c \in {"-", "."}

RECURSIVE TokenEnd(_, _)
TokenEnd(s, i) == IF i <= Len(s) /\ TokChar(s[i]) THEN TokenEnd(s, i + 1) ELSE i

\* re.findall(r'path:([A-Za-z0-9_\-\.]+)\*?', s) from position i on
RECURSIVE PathTokensFrom(_, _)
PathTokensFrom(s, i) ==
    IF i + 5 > Len(s) THEN <<>>
    ELSE IF Mid(s, i, 5) = <<"p", "a", "t", "h", ":">> /\ TokChar(s[i + 5])
         THEN LET e == TokenEnd(s, i + 5)
              IN  <<SubSeq(s, i + 5, e - 1)>>
                  \o PathTokensFrom(s, IF e <= Len(s) /\ s[e] = "*" THEN e + 1 ELSE e)
         ELSE PathTokensFrom(s, i + 1)

ext_alias ==
    <<<<<<"s", "q", "l", " ", "f", "i", "l", "e", "s">>, <<"s", "q", "l">>>>, <<<<"s", "q", "l", " ", "f", "i", "l", "e">>, <<"s", "q", "l">>>>, <<<<"c", "s", "v", " ", "f", "i", "l", "e", "s">>, <<"c", "s", "v">>>>, <<<<"c", "s", "v", " ", "f", "i", "l", "e">>, <<"c", "s", "v">>>>,
      <<<<"j", "s", "o", "n", " ", "f", "i", "l", "e", "s">>, <<"j", "s", "o", "n">>>>, <<<<"j", "s", "o", "n", " ", "f", "i", "l", "e">>, <<"j", "s", "o", "n">>>>, <<<<"p", "y", "t", "h", "o", "n", " ", "s", "c", "r", "i", "p", "t", "s">>, <<"p", "y">>>>,
      <<<<"p", "y", "t", "h", "o", "n", " ", "s", "c", "r", "i", "p", "t">>, <<"p", "y">>>>, <<<<"r", "e", "a", "c", "t", " ", "c", "o", "m", "p", "o", "n", "e", "n", "t", "s">>, <<"t", "s", "x">>>>, <<<<"r", "e", "a", "c", "t", " ", "c", "o", "m", "p", "o", "n", "e", "n", "t">>, <<"t", "s", "x">>>>>>

\* what the full-text engine does with a MATCH query: it rejects the query
\* (error), or it returns rows of file_index
FtsOutcome(error, rows) == [error |-> error, rows |-> rows]

\* the row lists of the path tokens, one after the other
RECURSIVE Flatten(_)
Flatten(lists) == IF lists = <<>> THEN <<>> ELSE Head(lists) \o Flatten(Tail(lists))

\* the rows the sub-queries of search_index produce, in the order produced
SearchRows(index, query, fts) ==
    LET matched == IF fts.error THEN <<>> ELSE Take(fts.rows, MatchLimit)
        tokens == PathTokensFrom(query, 1)
        q == Lower(Strip(query))
        e == Lookup(ext_alias, q)
    IN  IF InStr(<<":">>, query) \/ InStr(<<" ", "A", "N", "D", " ">>, query) \/ InStr(<<" ", "O", "R", " ">>, query)
        THEN Flatten([i \in 1..Len(tokens) |-> PathLikeRows(index, tokens[i])]) \o matched
        ELSE (IF e # NULL THEN Take(SelectSeq(index, LAMBDA r : r.ext = e), MatchLimit) ELSE <<>>)
             \o PathLikeRows(index, query) \o matched

\* the deduplication left out
DedupByPath_none(s) == s

\* the first entry of every path
RECURSIVE DedupByPath(_)
DedupByPath(s) ==
    IF s = <<>> THEN <<>>
    ELSE LET init == DedupByPath(SubSeq(s, 1, Len(s) - 1))
             x == s[Len(s)]
         IN  IF \E i \in 1..Len(init) : init[i].path = x.path THEN init ELSE Append(init, x)

IsFolderRow(table, p) == \E i \in 1..Len(table) : table[i].path = p /\ table[i].kind = "folder"

\* the walk that stops at the first folder it looks at
ParentFolders_parentOnly(table, cur, stop) == IF IsFolderRow(table, cur) THEN {cur} ELSE {}

\* the walk of _get_parent_folders_for_paths for one path: the registered folders
\* from cur upwards, the stop folder included
RECURSIVE ParentFolders(_, _, _)
ParentFolders(table, cur, stop) ==
    IF cur = <<>> \/ cur = Dirname(cur) THEN {}
    ELSE IF stop # NULL /\ cur = stop THEN (IF IsFolderRow(table, cur) THEN {cur} ELSE {})
    ELSE (IF IsFolderRow(table, cur) THEN {cur} ELSE {}) \cup ParentFolders(table, Dirname(cur), stop)

\* sorted(seq, key=len): stable
RECURSIVE SortByLen(_)
SortByLen(s) ==
    IF s = <<>> THEN <<>>
    ELSE LET m == CHOOSE i \in 1..Len(s) :
                     /\ \A j \in 1..Len(s) : Len(s[i]) <= Len(s[j])
                     /\ \A j \in 1..(i - 1) : Len(s[j]) > Len(s[i])
         IN  <<s[m]>> \o SortByLen(RemoveAt(s, m))

\* _get_parent_folders_for_paths; `order` is the order in which the set of folders
\* is iterated
_get_parent_folders_for_paths(table, roots, paths, order) ==
    LET stop(p) == IF Truthy(get_best_root_for_path(roots, Abspath(p)))
                   THEN Abspath(get_best_root_for_path(roots, Abspath(p))) ELSE NULL
        folder_paths == UNION {ParentFolders(table, Dirname(Abspath(paths[i])), stop(paths[i])) :
                                   i \in 1..Len(paths)}
    IN  SortByLen(SelectSeq(order, LAMBDA f : f \in folder_paths))

search_index(db, roots, query, root_path, fts, order) ==
    LET rows == SearchRows(db.file_index, query, fts)
        unique == DedupByPath([i \in 1..Len(rows) |->
                                  Entry(rows[i].path, rows[i].kind, <<"<snippet>">>)])
        scoped == IF Truthy(root_path)
                  THEN SelectSeq(unique, LAMBDA r :
                                 \/ Abspath(r.path) = Abspath(root_path)
                                 \/ StartsWith(Abspath(r.path),
                                               RStrip(Abspath(root_path), SEP) \o <<SEP>>))
                  ELSE unique
        file_entries == SelectSeq(scoped, LAMBDA r : r.kind = "file")
        file_paths == [i \in 1..Len(file_entries) |-> file_entries[i].path]
        parent_folders == _get_parent_folders_for_paths(db.files, roots, file_paths, order)
        fresh == SelectSeq(parent_folders, LAMBDA fp : \A i \in 1..Len(scoped) : scoped[i].path # fp)
    IN  Take(scoped \o [i \in 1..Len(fresh) |-> Entry(fresh[i], "folder", <<"Contains matching files.">>)], ResultCap)

\* the search request of handle_request: the response, and the resolution made
\* for it when use_ai is set (an exception anywhere gives the error response)
handle_search(db, roots, res, query, use_ai, root_path, fts, order) ==
    LET value == OrEmpty(res.value)
        translated == [i \in 1..Len(value) |-> IF value[i] = "%" THEN "*" ELSE value[i]]
        final_query == IF use_ai /\ Truthy(translated) /\ translated # OrEmpty(query)
                       THEN translated ELSE OrEmpty(query)
    IN  IF use_ai /\ res.raised
        THEN [status |-> "error", data |-> <<>>, final_query |-> NULL]
        ELSE [status |-> "success",
              data |-> search_index(db, roots, final_query, root_path, fts, order),
              final_query |-> final_query]

-----------------------------------------------------------------------------
(* State *)

\* lastAgg of a folder that no operation has aggregated yet
NoAgg == [done |-> FALSE, direct_summary |-> NULL, rec_summary |-> NULL, rec_content |-> NULL]

\* what the last aggregation of a folder left in the two stores
Snapshot(db, folder) ==
    [done |-> TRUE,
     direct_summary |-> IF RowsOf(db.files, folder) # <<>> THEN RowsOf(db.files, folder)[1].summary ELSE NULL,
     rec_summary |-> IF RowsOf(db.file_index, folder) # <<>> THEN RowsOf(db.file_index, folder)[1].summary ELSE NULL,
     rec_content |-> IF RowsOf(db.file_index, folder) # <<>> THEN RowsOf(db.file_index, folder)[1].content ELSE NULL]

\* lastAgg after an operation that aggregated `folders` and left `db`
Aggregated(db, folders) ==
    [f \in DirPaths |->
        IF \E i \in 1..Len(folders) : folders[i] = f THEN Snapshot(db, f) ELSE lastAgg[f]]

Op(name, path, arg, n) == [op |-> name, path |-> path, arg |-> arg, n |-> n]

CurDB == DB(files, file_index)

\* the record kept of a search request and its response; `hard` tells that the
\* collaborator call raised and the full-text engine rejected the query
Reply(out, query, use_ai, root_path, hard) ==
    [status |-> out.status, data |-> out.data, query |-> query, use_ai |-> use_ai,
     root_path |-> root_path, hard |-> hard]

Call(fn, in, out) == [fn |-> fn, in |-> in, out |-> out]
\* an operation ends: the database it leaves and the record of it
Commit(db, op) ==
    /\ files' = db.files
    /\ file_index' = db.file_index
    /\ lastOp' = op
    /\ ops' = ops + 1

\* the threads of the daemon that call into the store and the cache
Threads == {"t1", "t2"}

\* a thread between two calls
Idle == [at |-> "idle"]

Init ==
    /\ files = <<>>
    /\ file_index = <<>>
    /\ index_roots = {}
    /\ disk = AllPaths
    /\ lastAgg = [f \in DirPaths |-> NoAgg]
    /\ lastOp = Op("init", EMPTY, EMPTY, 0)
    /\ ops = 0
    /\ call = Call("none", EMPTY, EMPTY)
    /\ intent_cache = <<>>
    /\ clock = 0
    /\ resolved = <<>>
    /\ reply = [status |-> "none", data |-> <<>>, query |-> NULL, use_ai |-> FALSE,
                root_path |-> NULL, hard |-> FALSE]
    /\ pc = [t \in Threads |-> Idle]
    /\ cache_lock = <<>>

-----------------------------------------------------------------------------
(* Operations of the store *)

\* whether the upsert finds the path registered (1), and with other content (2)
Found(path, content) ==
    IF RowsOf(files, path) = <<>> THEN 0
    ELSE IF RowsOf(file_index, path) # <<>> /\ RowsOf(file_index, path)[1].content # content THEN 2
    ELSE 1

InsertFile ==
    /\ ops < MaxOps
    /\ \E path \in FilePaths, v \in {<<<<"hello">>, 1>>, <<<<"deep">>, 2>>} :
          Commit(insert_file(CurDB, path, v[1], v[2], CTime, 1),
                 Op("insert_file", path, EMPTY, Found(path, v[1])))
    /\ UNCHANGED <<index_roots, disk, lastAgg, nonStore>>

InsertFolder ==
    /\ ops < MaxOps
    /\ \E path \in DirPaths, mtime \in {2} :
          Commit(insert_folder(CurDB, path, mtime, CTime),
                 Op("insert_folder", path, EMPTY, Found(path, EMPTY)))
    /\ UNCHANGED <<index_roots, disk, lastAgg, nonStore>>

UpdateSummary ==
    /\ ops < MaxOps
    /\ \E path \in AllPaths, text \in Summaries :
          Commit(update_summary(CurDB, path, text), Op("update_summary", path, text, 0))
    /\ UNCHANGED <<index_roots, disk, lastAgg, nonStore>>

UpdateTechStack ==
    /\ ops < MaxOps
    /\ \E path \in FilePaths, text \in {<<"Python">>} :
          Commit(update_tech_stack(CurDB, path, text), Op("update_tech_stack", path, text, 0))
    /\ UNCHANGED <<index_roots, disk, lastAgg, nonStore>>

UpdateFolderAggregate ==
    /\ ops < MaxOps
    /\ \E folder \in DirPaths :
          LET db == update_folder_aggregate(CurDB, folder, MaxChildren)
          IN  /\ Commit(db, Op("update_folder_aggregate", folder, EMPTY, 0))
              /\ lastAgg' = Aggregated(db, <<Abspath(folder)>>)
    /\ UNCHANGED <<index_roots, disk, nonStore>>

\* the propagation after a file's summary changed: it runs to its end, or the
\* process dies after `commits` commits, before the next one
UpdateFolderAggregateUpTree ==
    /\ ops < MaxOps
    /\ \E path \in FilePaths : \E stop_at \in {NULL, get_best_root_for_path(index_roots, path)} :
          LET stop == IF Truthy(stop_at) THEN Abspath(stop_at) ELSE NULL
              chain == UpTreeFolders(files, UpTreeStart(disk, path), stop)
          IN  \E commits \in (IF chain = <<>> THEN 0 ELSE 1)..Len(chain) :
                  LET db == update_folder_aggregate_up_tree(CurDB, disk, path, stop_at, commits)
                  IN  /\ Commit(db, Op("update_folder_aggregate_up_tree", path,
                                       IF commits < Len(chain) THEN <<"died">> ELSE EMPTY, commits))
                      /\ lastAgg' = Aggregated(db, Take(chain, commits))
    /\ UNCHANGED <<index_roots, disk, nonStore>>

ScanDirectory ==
    /\ ops < MaxOps
    /\ \E root \in DirPaths,
          listing \in {<<P_r, P_a_, P_ab, P_y, P_x>>, <<P_r, P_ab, P_a_, P_x, P_y>>} :
          LET scan == scan_directory(CurDB, disk, root, listing, [path |-> NULL, kind |-> "none"])
          IN  /\ Commit(scan.db, Op("scan_directory", root, EMPTY, scan.count))
              /\ index_roots' = add_index_root(index_roots, root)
              /\ lastAgg' = Aggregated(scan.db, scan.folders_seen)
    /\ UNCHANGED <<disk, nonStore>>

RebuildFtsIndex ==
    /\ ops < MaxOps
    /\ Commit(rebuild_fts_index(CurDB, disk), Op("rebuild_fts_index", EMPTY, EMPTY, 0))
    /\ UNCHANGED <<index_roots, disk, lastAgg, nonStore>>

\* save_summary request: update_summary, then the propagation up to the best root
SaveSummary ==
    /\ ops < MaxOps
    /\ \E path \in AllPaths, text \in Summaries :
          LET db1 == update_summary(CurDB, path, text)
              stop_at == get_best_root_for_path(index_roots, path)
              db == update_folder_aggregate_up_tree(db1, disk, path, stop_at, Len(path))
              stop == IF Truthy(stop_at) THEN Abspath(stop_at) ELSE NULL
              chain == UpTreeFolders(db1.files, UpTreeStart(disk, path), stop)
          IN  /\ Commit(db, Op("save_summary", path, text, Len(chain)))
              /\ lastAgg' = Aggregated(db, chain)
    /\ UNCHANGED <<index_roots, disk, nonStore>>

Next ==
    \/ InsertFile
    \/ InsertFolder
    \/ UpdateSummary
    \/ UpdateTechStack
    \/ UpdateFolderAggregate
    \/ UpdateFolderAggregateUpTree
    \/ ScanDirectory

Spec == Init /\ [][Next]_vars

\* scans, explicit saves, aggregation and rebuild only
NextSplit ==
    \/ ScanDirectory
    \/ SaveSummary
    \/ UpdateFolderAggregate
    \/ RebuildFtsIndex

SpecSplit == Init /\ [][NextSplit]_vars

-----------------------------------------------------------------------------
(* Root tracker on its own *)

AddIndexRoot ==
    /\ \E root \in {P_fsroot, P_r, P_a, P_a_, P_ab} :
          /\ index_roots' = add_index_root(index_roots, root)
          /\ call' = Call("add_index_root", root, EMPTY)
    /\ UNCHANGED <<pc, cache_lock, files, file_index, disk, lastAgg, lastOp, ops, intent_cache, clock, resolved, reply>>

GetBestRootForPath ==
    /\ \E path \in AllPaths \cup {P_fsroot, P_a} :
          call' = Call("get_best_root_for_path", path, get_best_root_for_path(index_roots, path))
    /\ UNCHANGED <<pc, cache_lock, files, file_index, index_roots, disk, lastAgg, lastOp, ops,
                   intent_cache, clock, resolved, reply>>

NextRoot ==
    \/ AddIndexRoot
    \/ GetBestRootForPath

SpecRoot == Init /\ [][NextRoot]_vars

-----------------------------------------------------------------------------
(* Intent resolution and search requests *)

\* raw queries submitted for resolution
Q_year == <<"f", "i", "l", "e", "s", " ", "f", "r", "o", "m", " ", "2", "0", "2", "4">>
Q_budget == <<"b", "u", "d", "g", "e", "t", " ", "f", "i", "l", "e", "s">>
Queries == {Q_year, <<"f", "i", "l", "e", "s", "-", "f", "r", "o", "m", " ", "2", "0", "2", "4">>, Q_budget, <<"b", "u", "d", "g", "e", "t", " ", "f", "i", "l", "e", "s", "!">>}

\* what the full-text engine may do with the MATCH query of a request, and the
\* orders in which the set of bubbled folders may be iterated
FtsOutcomes(index) ==
    {FtsOutcome(TRUE, <<>>)}
    \cup {FtsOutcome(FALSE, SelectSeq(index, LAMBDA r : r.path \in S)) : S \in {{}, {P_y}, AllPaths}}
SetOrders == {<<P_r, P_a_, P_ab>>, <<P_r, P_ab, P_a_>>}

\* whether resolving the query now reaches the collaborator call
Reaches(query) ==
    parse_search_intent(intent_cache, clock, query, Answer("empty", NoIntent), 0).source = "collaborator"

\* parse_search_intent called on its own (as ai.py's main block does)
Resolve ==
    /\ ops < MaxOps
    /\ \E query \in Queries :
          LET Outcomes(reaches) ==
                  IF reaches THEN Answers \X AiLatencies ELSE {<<Answer("empty", NoIntent), 0>>}
              \* the last two resolutions
              Kept(hist) == IF Len(hist) > 2 THEN Tail(hist) ELSE hist
              Done(res) ==
                  /\ intent_cache' = res.cache
                  /\ clock' = res.now
                  /\ resolved' = Kept(Append(resolved,
                        [query |-> res.query, at |-> res.at, found |-> res.found,
                         source |-> res.source, value |-> res.value, calls |-> res.calls]))
          IN  \E o \in Outcomes(Reaches(query)) :
                 Done(parse_search_intent(intent_cache, clock, query, o[1], o[2]))
    /\ ops' = ops + 1
    /\ UNCHANGED <<pc, cache_lock, files, file_index, index_roots, disk, lastAgg, lastOp, call, reply>>

\* time passes
Tick ==
    /\ \E d \in {61} :
          /\ clock + d <= MaxClock
          /\ clock' = clock + d
    /\ UNCHANGED <<pc, cache_lock, files, file_index, index_roots, disk, lastAgg, lastOp, ops, call,
                   intent_cache, resolved, reply>>

\* a search request without the AI translation
SearchPlain ==
    /\ ops < MaxOps
    /\ \E query \in {<<"a", "b">>, <<"p", "a", "t", "h", ":", "a", "_", "*">>, <<"p", "y", "t", "h", "o", "n", " ", "s", "c", "r", "i", "p", "t", "s">>}, root_path \in {NULL, P_r, P_a_} :
       \E fts \in FtsOutcomes(file_index), order \in SetOrders :
          reply' = Reply(handle_search(CurDB, index_roots,
                                       Resolution(NULL, 0, "none", "none", NULL, 0, <<>>, 0, FALSE),
                                       query, FALSE,
                                       root_path, fts, order),
                         query, FALSE, root_path, FALSE)
    /\ ops' = ops + 1
    /\ UNCHANGED <<pc, cache_lock, files, file_index, index_roots, disk, lastAgg, lastOp, call,
                   intent_cache, clock, resolved>>

\* a search request with use_ai set
SearchAi ==
    /\ ops < MaxOps
    /\ \E query \in {<<"a", "b">>} :
          LET Outcomes(reaches) ==
                  IF reaches THEN Answers \X AiLatencies ELSE {<<Answer("empty", NoIntent), 0>>}
              Done(res, raise) ==
                  /\ intent_cache' = res.cache
                  /\ clock' = res.now
                  /\ \E root_path \in {NULL, P_a_}, fts \in FtsOutcomes(file_index), order \in SetOrders :
                        reply' = Reply(handle_search(CurDB, index_roots, res, query, TRUE,
                                                     root_path, fts, order),
                                       query, TRUE, root_path,
                                       res.calls > 0 /\ raise /\ fts.error)
          IN  \E o \in Outcomes(Reaches(query)) :
                 Done(parse_search_intent(intent_cache, clock, query, o[1], o[2]),
                      o[1].kind = "raise")
    /\ ops' = ops + 1
    /\ UNCHANGED <<pc, cache_lock, files, file_index, index_roots, disk, lastAgg, lastOp, call, resolved>>

NextIntent ==
    \/ Resolve
    \/ Tick

SpecIntent == Init /\ [][NextIntent]_vars

NextSearch ==
    \/ ScanDirectory
    \/ SearchPlain

SpecSearch == Init /\ [][NextSearch]_vars

NextRequest ==
    \/ ScanDirectory
    \/ SearchAi

SpecRequest == Init /\ [][NextRequest]_vars

-----------------------------------------------------------------------------
(* Searches and listings of a scanned tree *)

\* the files of /r/ab besides x.py, in listing order
TreeFiles ==
    LET Names == <<"a", "b", "c", "d", "e", "f", "g", "h", "i", "j", "k", "l",
                   "m", "n", "o", "p", "q", "r", "s", "t", "u", "v", "w">>
    IN  [i \in 1..MaxTree |-> P_ab \o <<SEP, Names[i], ".", "p", "y">>]

\* the empty stores, and one of `disks` as the tree on disk
InitOn(disks) ==
    /\ files = <<>>
    /\ file_index = <<>>
    /\ index_roots = {}
    /\ disk \in disks
    /\ lastAgg = [f \in DirPaths |-> NoAgg]
    /\ lastOp = Op("init", EMPTY, EMPTY, 0)
    /\ ops = 0
    /\ call = Call("none", EMPTY, EMPTY)
    /\ intent_cache = <<>>
    /\ clock = 0
    /\ resolved = <<>>
    /\ reply = [status |-> "none", data |-> <<>>, query |-> NULL, use_ai |-> FALSE,
                root_path |-> NULL, hard |-> FALSE]
    /\ pc = [t \in Threads |-> Idle]
    /\ cache_lock = <<>>

\* scan_directory of the tree's top folder
ScanTree ==
    /\ ops < MaxOps
    /\ LET scan == scan_directory(CurDB, disk, P_r, <<P_r, P_a_, P_ab, P_y, P_x>> \o TreeFiles,
                                  [path |-> NULL, kind |-> "none"])
       IN  /\ Commit(scan.db, Op("scan_directory", P_r, EMPTY, scan.count))
           /\ index_roots' = add_index_root(index_roots, P_r)
           /\ lastAgg' = Aggregated(scan.db, scan.folders_seen)
    /\ UNCHANGED <<disk, nonStore>>

\* search_index called on its own (as run_tests_extensive.py does); the engine
\* rejects the MATCH query, or matches no row, the file rows, or every row
SearchIndex ==
    /\ ops < MaxOps
    /\ \E query \in {<<"p", "y">>, <<"p", "a", "t", "h", ":", "a", "b", "*">>, <<"p", "y", "t", "h", "o", "n", " ", "s", "c", "r", "i", "p", "t", "s">>}, root_path \in {NULL, P_ab},
          order \in SetOrders :
       \E fts \in {FtsOutcome(TRUE, <<>>), FtsOutcome(FALSE, <<>>),
                   FtsOutcome(FALSE, SelectSeq(file_index, LAMBDA r : r.kind = "file")),
                   FtsOutcome(FALSE, file_index)} :
          call' = Call("search_index",
                       [query |-> query, root_path |-> root_path, fts |-> fts, order |-> order],
                       search_index(CurDB, index_roots, query, root_path, fts, order))
    /\ lastOp' = Op("search_index", EMPTY, EMPTY, 0)
    /\ ops' = ops + 1
    /\ UNCHANGED <<pc, cache_lock, files, file_index, index_roots, disk, lastAgg,
                   intent_cache, clock, resolved, reply>>

\* scans and searches of a tree of one of four sizes
SpecTree ==
    /\ InitOn({AllPaths \cup {TreeFiles[i] : i \in 1..n} : n \in {1, MaxTree - 4, MaxTree - 3, MaxTree}})
    /\ [][ScanTree \/ SearchIndex]_vars

-----------------------------------------------------------------------------
(* Scans with a failing entry, and folder listings *)

\* list_folder_children: the rows LIKE selects, those kept whose path has one more
\* segment than the folder, folders first and then by lower-cased name
list_folder_children(table, folder_path) ==
    LET base == RStrip(Abspath(folder_path), SEP) \o <<SEP>>
        rows == SelectSeq(table, LAMBDA r : Like(r.path, base \o <<"%">>))
        Kept(rel) == rel # <<>> /\ ~Contains(rel, SEP)
        out == SelectSeq(rows, LAMBDA r : Kept(Drop(r.path, Len(base))))
        \* the characters of the model's names, in code point order
        Ord == <<"-", ".", "0", "1", "2", "3", "4", "5", "6", "7", "8", "9", "_">> \o LowerChars
        Rank(c) == CHOOSE i \in 1..Len(Ord) : Ord[i] = c
        StrLess(a, b) ==
            \E k \in 1..(Len(a) + 1) :
               /\ SubSeq(a, 1, k - 1) = SubSeq(b, 1, k - 1)
               /\ k <= Len(b)
               /\ k <= Len(a) => Rank(a[k]) < Rank(b[k])
        Key(r) == <<IF r.kind = "folder" THEN 0 ELSE 1, Lower(Basename(r.path))>>
        KeyLess(x, y) == x[1] < y[1] \/ (x[1] = y[1] /\ StrLess(x[2], y[2]))
        \* list.sort(key): stable
        Place(s, keys) ==
            LET before(i) == Cardinality({j \in 1..Len(s) :
                                 KeyLess(keys[j], keys[i]) \/ (j < i /\ ~KeyLess(keys[i], keys[j]))})
            IN  [n \in 1..Len(s) |-> s[CHOOSE i \in 1..Len(s) : before(i) = n - 1]]
    IN  Place(out, [i \in 1..Len(out) |-> Key(out[i])])

\* scan_directory of a folder, one entry of the tree failing or none
ScanWithFault ==
    /\ ops < MaxOps
    /\ \E root \in {P_r, P_ab},
          fault \in {[path |-> NULL, kind |-> "none"], [path |-> P_y, kind |-> "stat"],
                     [path |-> P_x, kind |-> "read"], [path |-> P_x, kind |-> "storage"],
                     [path |-> P_ab, kind |-> "stat"], [path |-> P_a_, kind |-> "storage"],
                     [path |-> P_ab, kind |-> "aggregate"]} :
          LET scan == scan_directory(CurDB, disk, root,
                                     <<P_r, P_a_, P_ab, P_y, P_x, P_ab \o <<"/", "t", ".", "t", "x", "t">>>>, fault)
          IN  /\ Commit(scan.db, Op("scan_directory", root, EMPTY, scan.count))
              /\ index_roots' = add_index_root(index_roots, root)
              /\ lastAgg' = Aggregated(scan.db, scan.folders_seen)
              /\ call' = Call("scan_directory", [root_path |-> root, fault |-> fault],
                              [count |-> scan.count, folders_seen |-> scan.folders_seen,
                               swept |-> scan.swept])
    /\ UNCHANGED <<pc, cache_lock, disk, intent_cache, clock, resolved, reply>>

\* the list_folder request of handle_request
ListFolder ==
    /\ ops < MaxOps
    /\ \E folder_path \in DirPaths \cup {P_y} :
          call' = Call("list_folder", folder_path,
                       IF folder_path \in disk /\ IsDir(disk, folder_path)
                       THEN [status |-> "success", data |-> list_folder_children(files, folder_path)]
                       ELSE [status |-> "error", data |-> <<>>])
    /\ lastOp' = Op("list_folder", EMPTY, EMPTY, 0)
    /\ ops' = ops + 1
    /\ UNCHANGED <<pc, cache_lock, files, file_index, index_roots, disk, lastAgg,
                   intent_cache, clock, resolved, reply>>

\* scans that meet a failure and listings, over the two-file tree, the tree with
\* /r/ab empty, and the tree whose only file is /r/ab/t.txt
SpecScan ==
    /\ InitOn({AllPaths, AllPaths \ {P_x}, {P_r, P_ab, P_ab \o <<"/", "t", ".", "t", "x", "t">>}})
    /\ [][ScanWithFault \/ ListFolder]_vars

-----------------------------------------------------------------------------
(* Background worker (server.py) *)

\* get_unsummarized_files with the wrong kind in its WHERE clause
get_unsummarized_files_folders(table) ==
    LET rows == SelectSeq(table, LAMBDA r : r.kind = "folder" /\ (r.summary = NULL \/ r.summary = EMPTY))
    IN  [i \in 1..Len(rows) |-> rows[i].path]

\* get_unsummarized_files: the paths in table order
get_unsummarized_files(table) ==
    LET rows == SelectSeq(table, LAMBDA r : r.kind = "file" /\ (r.summary = NULL \/ r.summary = EMPTY))
    IN  [i \in 1..Len(rows) |-> rows[i].path]

\* one turn of the loop of background_summarizer: nothing to do; or the first
\* unsummarized file is missing on disk and is passed over; or reading it raises;
\* or generate_summary answers with the collaborator's stripped text, which may
\* be empty, or with its failure text, and the summary is saved and propagated.
\* lastOp.n tells one turn from the next
BackgroundSummarizer ==
    LET files_to_do == get_unsummarized_files(files)
        turn == IF lastOp.op = "background_summarizer" THEN 1 - lastOp.n ELSE 0
        Turn(path, outcome) ==
            /\ lastOp' = Op("background_summarizer", path, outcome, turn)
            /\ UNCHANGED <<files, file_index, lastAgg>>
        Save(path, summary) ==
            LET Propagated(db1, stop_at) ==
                    LET Written(db, chain) ==
                            /\ files' = db.files
                            /\ file_index' = db.file_index
                            /\ lastAgg' = Aggregated(db, chain)
                    IN  Written(update_folder_aggregate_up_tree(db1, disk, path, stop_at, Len(path)),
                                UpTreeFolders(db1.files, UpTreeStart(disk, path),
                                              IF Truthy(stop_at) THEN Abspath(stop_at) ELSE NULL))
            IN  /\ Propagated(update_summary(CurDB, path, summary),
                              get_best_root_for_path(index_roots, path))
                /\ lastOp' = Op("background_summarizer", path,
                                 IF summary = EMPTY THEN <<"empty">> ELSE <<"saved">>, turn)
    IN  /\ \/ files_to_do = <<>> /\ Turn(EMPTY, <<"idle">>)
           \/ files_to_do # <<>> /\ files_to_do[1] \notin disk /\ Turn(files_to_do[1], <<"missing">>)
           \/ files_to_do # <<>> /\ files_to_do[1] \in disk /\ Turn(files_to_do[1], <<"unreadable">>)
           \/ /\ files_to_do # <<>>
              /\ files_to_do[1] \in disk
              /\ \E summary \in Summaries \cup {EMPTY, <<"Analysis failed.">>} :
                    Save(files_to_do[1], summary)
        /\ UNCHANGED <<index_roots, disk, ops, nonStore>>

\* upserts next to the worker, which is a thread that loops for ever;
\* over the two-file tree and the trees that miss one of the files
SpecWorker ==
    /\ InitOn({AllPaths, AllPaths \ {P_x}, AllPaths \ {P_y}})
    /\ [][InsertFile \/ BackgroundSummarizer]_vars
    /\ WF_vars(BackgroundSummarizer)

-----------------------------------------------------------------------------
(* Upsert and worker on two threads *)

\* insert_file on the request thread t1, statement by statement, next to the
\* worker thread. sqlite3 runs the SELECT before any transaction is open, and
\* opens one at the INSERT OR REPLACE; what the transaction writes is seen by
\* the other connection at conn.commit()
InsertFileStep ==
    LET Select(path, content, last_modified) ==
            pc' = [pc EXCEPT !["t1"] = [at |-> "insert_file.write", path |-> path,
                                        content |-> content, last_modified |-> last_modified,
                                        row |-> RowsOf(files, path)]]
        Write(l) ==
            Commit(insert_file_write(CurDB, l.path, l.content, l.last_modified, CTime, 1, l.row),
                   Op("insert_file", l.path, EMPTY, IF l.row = <<>> THEN 0 ELSE 1))
    IN  \/ /\ pc["t1"] = Idle
           /\ ops < MaxOps
           /\ \E path \in FilePaths, v \in {<<<<"h", "e", "l", "l", "o">>, 1>>, <<<<"d", "e", "e", "p">>, 2>>} : Select(path, v[1], v[2])
           /\ UNCHANGED <<files, file_index, index_roots, disk, lastAgg, lastOp, ops, call,
                          intent_cache, clock, resolved, reply, cache_lock>>
        \/ /\ pc["t1"].at = "insert_file.write"
           /\ Write(pc["t1"])
           /\ pc' = [pc EXCEPT !["t1"] = Idle]
           /\ UNCHANGED <<index_roots, disk, lastAgg, call, intent_cache, clock, resolved,
                          reply, cache_lock>>

\* the request thread upserts while the worker thread summarizes, over the
\* two-file tree
SpecRace ==
    /\ InitOn({AllPaths})
    /\ [][InsertFileStep \/ BackgroundSummarizer]_vars

-----------------------------------------------------------------------------
(* Intent cache under two callers *)

\* threading.Lock: acquire() goes through when no thread holds the lock
LockFree_any(lock) == TRUE

LockFree(lock) == lock = <<>>

\* _cache_get(key) on a thread, statement by statement: time.time(), entering
\* the `with` block, the statements of the block, leaving the block
CacheGet ==
    \E t \in Threads :
       \/ /\ pc[t] = Idle
          /\ ops < MaxOps
          /\ \E key \in {<<"p", "y">>, <<"m", "d">>} :
                pc' = [pc EXCEPT ![t] = [at |-> "_cache_get.acquire", key |-> key, now |-> clock]]
          /\ ops' = ops + 1
          /\ UNCHANGED <<intent_cache, cache_lock, call>>
       \/ /\ pc[t].at = "_cache_get.acquire"
          /\ LockFree(cache_lock)
          /\ cache_lock' = <<t>>
          /\ pc' = [pc EXCEPT ![t] = [@ EXCEPT !.at = "_cache_get.locked"]]
          /\ UNCHANGED <<intent_cache, ops, call>>
       \/ /\ pc[t].at = "_cache_get.locked"
          /\ LET l == pc[t]
                 item == IF l.key \in DOMAIN intent_cache THEN <<intent_cache[l.key]>> ELSE <<>>
                 got == _cache_get(intent_cache, l.key, l.now)
             IN  /\ intent_cache' = got.cache
                 /\ pc' = [pc EXCEPT ![t] = [at |-> "_cache_get.exit", key |-> l.key, now |-> l.now,
                                             item |-> item, value |-> got.value]]
          /\ UNCHANGED <<cache_lock, ops, call>>
       \/ /\ pc[t].at = "_cache_get.exit"
          /\ cache_lock' = <<>>
          /\ call' = Call("_cache_get", pc[t].key, pc[t].value)
          /\ pc' = [pc EXCEPT ![t] = Idle]
          /\ UNCHANGED <<intent_cache, ops>>
    /\ UNCHANGED <<files, file_index, index_roots, disk, lastAgg, lastOp, clock, resolved, reply>>

\* _cache_set(key, value) on a thread, statement by statement
CacheSet ==
    \E t \in Threads :
       \/ /\ pc[t] = Idle
          /\ ops < MaxOps
          /\ \E key \in {<<"p", "y">>, <<"m", "d">>}, value \in {<<"v", "1">>, <<"v", "2">>} :
                pc' = [pc EXCEPT ![t] = [at |-> "_cache_set.acquire", key |-> key, value |-> value]]
          /\ ops' = ops + 1
          /\ UNCHANGED <<intent_cache, cache_lock, call>>
       \/ /\ pc[t].at = "_cache_set.acquire"
          /\ LockFree(cache_lock)
          /\ cache_lock' = <<t>>
          /\ pc' = [pc EXCEPT ![t] = [@ EXCEPT !.at = "_cache_set.locked"]]
          /\ UNCHANGED <<intent_cache, ops, call>>
       \/ /\ pc[t].at = "_cache_set.locked"
          /\ intent_cache' = _cache_set(intent_cache, pc[t].key, pc[t].value, clock)
          /\ pc' = [pc EXCEPT ![t] = [@ EXCEPT !.at = "_cache_set.exit"]]
          /\ UNCHANGED <<cache_lock, ops, call>>
       \/ /\ pc[t].at = "_cache_set.exit"
          /\ cache_lock' = <<>>
          /\ call' = Call("_cache_set", pc[t].key, pc[t].value)
          /\ pc' = [pc EXCEPT ![t] = Idle]
          /\ UNCHANGED <<intent_cache, ops>>
    /\ UNCHANGED <<files, file_index, index_roots, disk, lastAgg, lastOp, clock, resolved, reply>>

\* two threads look entries up and store entries while time passes
SpecCache == Init /\ [][CacheGet \/ CacheSet \/ Tick]_vars

-----------------------------------------------------------------------------
(* Request loop of the server (server.py) *)

\* the if/elif chain of handle_request sending every method to the first branch
Route_first(method) == "ping"

\* the branch of the if/elif chain of handle_request that a method takes
Route(method) ==
    IF method \in {"ping", "index_folder", "search", "get_summary", "save_summary",
                   "refine_summary", "get_expanded_details", "list_folder"}
    THEN method ELSE "else"

\* the main thread t1 in start_server: server.accept() gives a connection, and
\* connection.recv() giving no data closes it
ServeConnection ==
    /\ \/ /\ pc["t1"] = Idle
          /\ pc' = [pc EXCEPT !["t1"] = [at |-> "recv", response |-> [status |-> "none", message |-> "none"]]]
          /\ lastOp' = Op("accept", EMPTY, EMPTY, 0)
       \/ /\ pc["t1"].at = "recv"
          /\ pc' = [pc EXCEPT !["t1"] = Idle]
          /\ lastOp' = Op("close", EMPTY, EMPTY, 0)
    /\ UNCHANGED <<files, file_index, index_roots, disk, lastAgg, ops, call, intent_cache,
                   clock, resolved, reply, cache_lock>>

\* one turn of the inner loop: a request is received on the open connection,
\* handle_request answers it and the response is sent; "NoMethod" stands for a
\* request without the key "method". The call is recorded with the response
\* that was sent before it on the connection
HandleRequest ==
    /\ pc["t1"].at = "recv"
    /\ ops < MaxOps
    /\ \E method \in {"ping", "index_folder", "frobnicate", "PING", "", "NoMethod"},
          path \in {P_r, P_ab, P_a} :
          LET Respond(response, scan) ==
                  /\ call' = Call("handle_request", [method |-> method, path |-> path,
                                                      after |-> pc["t1"].response], response)
                  /\ pc' = [pc EXCEPT !["t1"] = [at |-> "recv", response |-> response]]
                  /\ Commit(scan.db, Op("handle_request", path, EMPTY, scan.count))
                  /\ lastAgg' = Aggregated(scan.db, scan.folders_seen)
              Same == [db |-> CurDB, count |-> 0, folders_seen |-> <<>>]
          IN  \/ /\ Route(method) = "ping"
                 /\ Respond([status |-> "success", message |-> "pong"], Same)
                 /\ UNCHANGED index_roots
              \/ /\ Route(method) = "index_folder"
                 /\ path \notin disk
                 /\ Respond([status |-> "error", message |-> "Invalid path"], Same)
                 /\ UNCHANGED index_roots
              \/ /\ Route(method) = "index_folder"
                 /\ path \in disk
                 /\ Respond([status |-> "success", message |-> "Indexed"],
                           scan_directory(CurDB, disk, path, <<P_r, P_a_, P_ab, P_y, P_x>>,
                                          [path |-> NULL, kind |-> "none"]))
                 /\ index_roots' = add_index_root(index_roots, path)
              \/ /\ Route(method) = "else"
                 /\ Respond([status |-> "error", message |-> "Unknown method"], Same)
                 /\ UNCHANGED index_roots
    /\ UNCHANGED <<disk, intent_cache, clock, resolved, reply, cache_lock>>

\* connections come and go, and requests arrive on the open one
SpecServe == Init /\ [][ServeConnection \/ HandleRequest]_vars

-----------------------------------------------------------------------------
(* Propagation up the tree after scans of nested roots *)

\* index_folder of the filesystem root or of a folder of the tree
ScanFrom ==
    /\ ops < MaxOps
    /\ \E root \in {P_fsroot, P_r, P_ab} :
          LET scan == scan_directory(CurDB, disk, root, <<P_r, P_a_, P_ab, P_y, P_x>>,
                                     [path |-> NULL, kind |-> "none"])
          IN  /\ Commit(scan.db, Op("scan_directory", root, EMPTY, scan.count))
              /\ index_roots' = add_index_root(index_roots, root)
              /\ lastAgg' = Aggregated(scan.db, scan.folders_seen)
    /\ UNCHANGED <<disk, nonStore>>

\* update_folder_aggregate_up_tree(path, stop_at) run to its end, with no stop,
\* the best root of the path or a folder of the tree as stop_at
PropagateUpTree ==
    /\ ops < MaxOps
    /\ \E path \in FilePaths \cup {P_ab} :
       \E stop_at \in {NULL, get_best_root_for_path(index_roots, path), P_r, P_ab} :
          LET db == update_folder_aggregate_up_tree(CurDB, disk, path, stop_at, Len(path))
          IN  /\ Commit(db, Op("update_folder_aggregate_up_tree", path, EMPTY, 0))
              /\ call' = Call("update_folder_aggregate_up_tree",
                              [path |-> path, stop_at |-> stop_at], EMPTY)
              /\ lastAgg' = Aggregated(db, UpTreeFolders(files, UpTreeStart(disk, path),
                                           IF Truthy(stop_at) THEN Abspath(stop_at) ELSE NULL))
    /\ UNCHANGED <<index_roots, disk, intent_cache, clock, resolved, reply, pc, cache_lock>>

\* scans from nested roots, summary changes with and without propagation, and
\* propagation on its own
SpecUp ==
    /\ InitOn({AllPaths})
    /\ [][ScanFrom \/ UpdateSummary \/ SaveSummary \/ PropagateUpTree]_vars

-----------------------------------------------------------------------------
(* Query builder and answer decoding on their own *)

\* build_fts_query(data, original_query) for decoded intents and raw queries
BuildFtsQuery ==
    /\ \E original_query \in {<<"r", "e", "p", "o", "r", "t", " ", "2", "0", "2", "4">>, <<"r", "e", "p", "o", "r", "t", " ", "2", "0", "1", "9">>, <<"i", "n", " ", "y", "e", "a", "r", " ", "2", "0", "1", "9">>, <<"s", "u", "m", "m", "a", "r", "y", " ", "2", "0", "2", "4">>,
                              <<"t", "o", "d", "a", "y", " ", "2", "0", "2", "4">>, <<"b", "u", "d", "g", "e", "t">>},
          date_filter \in {NULL, <<"y", "e", "s", "t", "e", "r", "d", "a", "y">>, <<"2", "0", "2", "3">>, <<"2", "0", "2", "4", "-", "0", "1", "-", "0", "5">>},
          tech_filter \in {NULL, <<"p", "y", "t", "h", "o", "n">>, <<"R", "u", "s", "t">>},
          keywords \in {NULL, <<"b", "u", "d", "g", "e", "t">>, <<"p", "y", "t", "h", "o", "n", " ", "f", "i", "l", "e", "s">>} :
          call' = Call("build_fts_query",
                       [data |-> [date_filter |-> date_filter, tech_filter |-> tech_filter,
                                  keywords |-> keywords],
                        original_query |-> original_query],
                       build_fts_query([date_filter |-> date_filter, tech_filter |-> tech_filter,
                                        keywords |-> keywords], original_query))
    /\ UNCHANGED <<files, file_index, index_roots, disk, lastAgg, lastOp, ops, intent_cache,
                   clock, resolved, reply, pc, cache_lock>>

-----------------------------------------------------------------------------
(* Decoding of the collaborator's answer (ai.py) *)

\* str.replace(sub, ""): every occurrence of sub taken out, left to right
RECURSIVE Remove(_, _)
Remove(s, sub) ==
    LET hits == {i \in 1..(Len(s) - Len(sub) + 1) : SubSeq(s, i, i + Len(sub) - 1) = sub}
        Cut(i) == SubSeq(s, 1, i - 1) \o Remove(Drop(s, i + Len(sub) - 1), sub)
    IN  IF hits = {} \/ sub = <<>> THEN s ELSE Cut(CHOOSE i \in hits : \A j \in hits : i <= j)

\* result.replace(fence + "json", "").replace(fence, "").strip(), fence being three BackTick
StripFences(result) ==
    Strip(Remove(Remove(result, <<BackTick, BackTick, BackTick>> \o <<"j", "s", "o", "n">>), <<BackTick, BackTick, BackTick>>))

\* index of the first c at or after i, 0 when there is none
IndexFrom(s, c, i) ==
    LET hits == {j \in i..Len(s) : s[j] = c}
    IN  IF hits = {} THEN 0 ELSE CHOOSE j \in hits : \A k \in hits : j <= k

\* re.search(r"\{.*\}", text, re.DOTALL).group(0): from the first opening brace
\* to the last closing brace after it, NULL without a match
BraceBlock(text) ==
    LET a == IndexFrom(text, "{", 1)
        b == IF a = 0 THEN 0 ELSE RFind(text, "}")
    IN  IF a # 0 /\ b > a THEN SubSeq(text, a, b) ELSE NULL

\* the same with the first closing brace
BraceBlock_first(text) ==
    LET a == IndexFrom(text, "{", 1)
        b == IF a = 0 THEN 0 ELSE IndexFrom(text, "}", a)
    IN  IF a # 0 /\ b > a THEN SubSeq(text, a, b) ELSE NULL

\* the maximal run of characters of class at i: the index after it
RECURSIVE RunEnd(_, _, _)
RunEnd(s, i, class) == IF i <= Len(s) /\ s[i] \in class THEN RunEnd(s, i + 1, class) ELSE i

\* a JSON value at i: a string without escapes, null or an unsigned integer;
\* ok is FALSE for anything else
JsonValue(s, i) ==
    LET q == IndexFrom(s, "\"", i + 1)
        d == RunEnd(s, i, Digits)
    IN  IF i > Len(s) THEN [ok |-> FALSE, value |-> NULL, next |-> i]
        ELSE IF s[i] = "\""
             THEN IF q = 0 \/ Contains(SubSeq(s, i + 1, q - 1), "\\")
                  THEN [ok |-> FALSE, value |-> NULL, next |-> i]
                  ELSE [ok |-> TRUE, value |-> SubSeq(s, i + 1, q - 1), next |-> q + 1]
        ELSE IF Mid(s, i, 4) = <<"n", "u", "l", "l">> THEN [ok |-> TRUE, value |-> NULL, next |-> i + 4]
        ELSE IF d > i THEN [ok |-> TRUE, value |-> SubSeq(s, i, d - 1), next |-> d]
        ELSE [ok |-> FALSE, value |-> NULL, next |-> i]

\* data with the member key: value added; other keys are never read
WithMember(data, key, value) ==
    IF key = <<"d", "a", "t", "e", "_", "f", "i", "l", "t", "e", "r">> THEN [data EXCEPT !.date_filter = value]
    ELSE IF key = <<"t", "e", "c", "h", "_", "f", "i", "l", "t", "e", "r">> THEN [data EXCEPT !.tech_filter = value]
    ELSE IF key = <<"k", "e", "y", "w", "o", "r", "d", "s">> THEN [data EXCEPT !.keywords = value]
    ELSE data

\* the members of a JSON object from i on, up to the closing brace that ends s
RECURSIVE JsonMembers(_, _, _)
JsonMembers(s, i, data) ==
    LET k == SkipWhite(s, i)
        key == JsonValue(s, k)
        c == SkipWhite(s, key.next)
        v == JsonValue(s, SkipWhite(s, c + 1))
        e == SkipWhite(s, v.next)
    IN  IF k > Len(s) \/ s[k] # "\"" \/ ~key.ok THEN [ok |-> FALSE, data |-> NoIntent]
        ELSE IF c > Len(s) \/ s[c] # ":" \/ ~v.ok \/ e > Len(s) THEN [ok |-> FALSE, data |-> NoIntent]
        ELSE IF s[e] = "}" /\ e = Len(s) THEN [ok |-> TRUE, data |-> WithMember(data, key.value, v.value)]
        ELSE IF s[e] = "," THEN JsonMembers(s, e + 1, WithMember(data, key.value, v.value))
        ELSE [ok |-> FALSE, data |-> NoIntent]

\* json.loads(blob) for a blob that starts and ends with a brace: ok and the
\* three fields data.get reads (None for a missing key), or not ok when
\* json.loads raises
json_loads(blob) ==
    IF SkipWhite(blob, 2) = Len(blob) THEN [ok |-> TRUE, data |-> NoIntent]
    ELSE JsonMembers(blob, 2, NoIntent)

\* v.strip('"')
StripQuotes(v) == LStrip(RStrip(v, "\""), "\"")

\* re.search(key + r"\s*:\s*(<kinds>)", text, re.IGNORECASE).group(1), the
\* alternatives of kinds tried in the order null, quoted, \d{4}, \w+; NULL
\* without a match
FieldSearch(text, key, kinds) ==
    LET Value(k) ==
            LET q == IndexFrom(text, "\"", k + 1)
                w == RunEnd(text, k, {ch \in {text[j] : j \in 1..Len(text)} : IsWordChar(ch)})
            IN  IF "null" \in kinds /\ Lower(Mid(text, k, 4)) = <<"n", "u", "l", "l">> THEN Mid(text, k, 4)
                ELSE IF "quoted" \in kinds /\ k <= Len(text) /\ text[k] = "\"" /\ q # 0
                     THEN SubSeq(text, k, q)
                ELSE IF "digits" \in kinds /\ Len(Mid(text, k, 4)) = 4
                        /\ \A j \in k..(k + 3) : text[j] \in Digits
                     THEN Mid(text, k, 4)
                ELSE IF "word" \in kinds /\ w > k THEN SubSeq(text, k, w - 1)
                ELSE NULL
        At(i) ==
            LET c == SkipWhite(text, i + Len(key))
            IN  IF Lower(Mid(text, i, Len(key))) = key /\ c <= Len(text) /\ text[c] = ":"
                THEN Value(SkipWhite(text, c + 1))
                ELSE NULL
        hits == {i \in 1..Len(text) : At(i) # NULL}
    IN  IF hits = {} THEN NULL ELSE At(CHOOSE i \in hits : \A j \in hits : i <= j)

\* _regex_extract_intent
_regex_extract_intent(text) ==
    LET Field(v) == IF v = NULL \/ Lower(v) = <<"n", "u", "l", "l">> THEN NULL ELSE StripQuotes(v)
    IN  [date_filter |-> Field(FieldSearch(text, <<"d", "a", "t", "e", "_", "f", "i", "l", "t", "e", "r">>, {"null", "quoted", "digits", "word"})),
         tech_filter |-> Field(FieldSearch(text, <<"t", "e", "c", "h", "_", "f", "i", "l", "t", "e", "r">>, {"null", "quoted", "word"})),
         keywords |-> Field(FieldSearch(text, <<"k", "e", "y", "w", "o", "r", "d", "s">>, {"null", "quoted"}))]

\* parse_search_intent from the collaborator's text to the decoded answer: the
\* fences stripped, the brace block searched, json.loads tried on it and
\* _regex_extract_intent applied to the whole text when json.loads raises
DecodeAnswer(result) ==
    LET Decoded(clean_result, blob) ==
            IF blob = NULL
            THEN Answer(IF clean_result = EMPTY THEN "empty" ELSE "prose", NoIntent)
            ELSE IF json_loads(blob).ok THEN Answer("json", json_loads(blob).data)
            ELSE Answer("malformed", _regex_extract_intent(clean_result))
    IN  Decoded(StripFences(result), BraceBlock(StripFences(result)))

\* texts the collaborator may answer with
AnswerTexts ==
    {<<"{", "\"", "d", "a", "t", "e", "_", "f", "i", "l", "t", "e", "r", "\"", ":", " ", "n", "u", "l", "l", ",", " ", "\"", "t", "e", "c", "h", "_", "f", "i", "l", "t", "e", "r", "\"", ":", " ", "\"", "p", "y", "t", "h", "o", "n", "\"", ",", " ", "\"", "k", "e", "y", "w", "o", "r", "d", "s", "\"", ":", " ", "\"", "b", "u", "d", "g", "e", "t", "\"", "}">>,
     <<BackTick, BackTick, BackTick>> \o <<"j", "s", "o", "n", " ", "{", "\"", "d", "a", "t", "e", "_", "f", "i", "l", "t", "e", "r", "\"", ":", " ", "\"", "y", "e", "s", "t", "e", "r", "d", "a", "y", "\"", ",", " ", "\"", "t", "e", "c", "h", "_", "f", "i", "l", "t", "e", "r", "\"", ":", " ", "n", "u", "l", "l", ",", " ", "\"", "k", "e", "y", "w", "o", "r", "d", "s", "\"", ":", " ", "\"", "t", "h", "e", " ", "f", "i", "l", "e", "s", "\"", "}", " ">>
        \o <<BackTick, BackTick, BackTick>>,
     <<"{", "\"", "d", "a", "t", "e", "_", "f", "i", "l", "t", "e", "r", "\"", ":", " ", "n", "u", "l", "l", ",", " ", "\"", "t", "e", "c", "h", "_", "f", "i", "l", "t", "e", "r", "\"", ":", " ", "n", "u", "l", "l", ",", " ", "\"", "k", "e", "y", "w", "o", "r", "d", "s", "\"", ":", " ", "n", "u", "l", "l", "}">>,
     <<"{", "}">>,
     <<"{", "d", "a", "t", "e", "_", "f", "i", "l", "t", "e", "r", ":", " ", "2", "0", "2", "4", ",", " ", "t", "e", "c", "h", "_", "f", "i", "l", "t", "e", "r", ":", " ", "n", "u", "l", "l", ",", " ", "k", "e", "y", "w", "o", "r", "d", "s", ":", " ", "\"", "b", "u", "d", "g", "e", "t", "\"", "}">>,
     <<"{", "D", "a", "t", "e", "_", "F", "i", "l", "t", "e", "r", " ", ":", " ", "y", "e", "s", "t", "e", "r", "d", "a", "y", ",", " ", "t", "e", "c", "h", "_", "f", "i", "l", "t", "e", "r", ":", " ", "R", "u", "s", "t", ",", " ", "k", "e", "y", "w", "o", "r", "d", "s", ":", " ", "n", "u", "l", "l", "}">>,
     <<"{", "k", "e", "y", "w", "o", "r", "d", "s", ":", " ", "b", "u", "d", "g", "e", "t", "}">>,
     <<"{", "\"", "k", "e", "y", "w", "o", "r", "d", "s", "\"", ":", " ", "\"", "b", "u", "d", "g", "e", "t", "\"", ",", "}">>,
     <<"{", "\"", "k", "e", "y", "w", "o", "r", "d", "s", "\"", ":", " ", "\"", "b", "u", "d", "g", "e", "t", "\"", "}", " ", "o", "r", " ", "{", "}">>,
     <<"k", "e", "y", "w", "o", "r", "d", "s", ":", " ", "\"", "b", "u", "d", "g", "e", "t", "\"">>,
     <<"I", " ", "c", "a", "n", "n", "o", "t", " ", "h", "e", "l", "p", " ", "w", "i", "t", "h", " ", "t", "h", "a", "t", ".">>,
     <<>>}

\* parse_search_intent from the answer of the collaborator on, for a query
\* that misses the cache and the rules
DecodeIntent ==
    /\ \E user_query \in {<<"r", "e", "p", "o", "r", "t", " ", "2", "0", "2", "4">>, <<"b", "u", "d", "g", "e", "t">>, <<"R", "u", "s", "t", "!">>, <<"o", "l", "d", " ", "n", "o", "t", "e", "s">>, <<"t", "o", "d", "a", "y">>, <<>>},
          result \in AnswerTexts :
          call' = Call("parse_search_intent", [user_query |-> user_query, result |-> result],
                       [answer |-> DecodeAnswer(result),
                        final |-> intent_from_answer(user_query, DecodeAnswer(result)).final])
    /\ UNCHANGED <<files, file_index, index_roots, disk, lastAgg, lastOp, ops, intent_cache,
                   clock, resolved, reply, pc, cache_lock>>

\* the query builder and the decoding applied to what the collaborator may answer
SpecBuild == Init /\ [][BuildFtsQuery \/ DecodeIntent]_vars

-----------------------------------------------------------------------------
(* Store operations next to a rebuild of the index *)

\* rebuild_fts_index up to its first commit: the index is dropped and created
\* anew, and the process dies before the rows are written
RebuildFtsIndexInterrupted ==
    /\ ops < MaxOps
    /\ Commit(DB(files, <<>>), Op("rebuild_fts_index_interrupted", EMPTY, EMPTY, 0))
    /\ UNCHANGED <<index_roots, disk, lastAgg, nonStore>>

\* the store operations and the rebuild, on a disk that may have lost a file
SpecFrame ==
    /\ InitOn({AllPaths, AllPaths \ {P_x}})
    /\ [][InsertFile \/ InsertFolder \/ UpdateSummary \/ UpdateFolderAggregate
          \/ RebuildFtsIndex \/ RebuildFtsIndexInterrupted]_vars

-----------------------------------------------------------------------------
(* Intent resolution by two callers at once *)

\* parse_search_intent on a thread up to the collaborator call: the cache
\* lookup and the rules. A hit or a rule ends the call; otherwise the thread
\* goes on to the chat call. `began` is the number of resolutions that had
\* ended when this one began
ParseSearchIntentLookup ==
    /\ ops < MaxOps
    /\ \E t \in Threads, query \in {Q_year, <<"b", "u", "d", "g", "e", "t", " ", "f", "i", "l", "e", "s", "!">>, <<"B", "u", "d", "g", "e", "t", " ", "f", "i", "l", "e", "s", "?">>} :
          /\ pc[t] = Idle
          /\ LET Looked(res, normalized) ==
                     IF res.source # "collaborator"
                     THEN /\ intent_cache' = res.cache
                          /\ resolved' = Append(resolved,
                                [query |-> query, thread |-> t, began |-> Len(resolved),
                                 source |-> res.source, value |-> res.value, calls |-> 0])
                          /\ pc' = pc
                     ELSE /\ intent_cache' = _cache_get(intent_cache, normalized, clock).cache
                          /\ resolved' = resolved
                          /\ pc' = [pc EXCEPT ![t] = [at |-> "parse_search_intent.chat",
                                                      query |-> query, began |-> Len(resolved)]]
             IN  Looked(parse_search_intent(intent_cache, clock, query, Answer("empty", NoIntent), 0),
                        clean_string(Lower(query)))
    /\ ops' = ops + 1
    /\ UNCHANGED <<files, file_index, index_roots, disk, lastAgg, lastOp, call, clock, reply,
                   cache_lock>>

\* parse_search_intent on a thread from the answer of the collaborator on:
\* the filter is decoded and stored in the cache
ParseSearchIntentChat ==
    /\ \E t \in Threads, answer \in {Answer("raise", NoIntent), Answer("prose", NoIntent),
                                     Answer("json", [NoIntent EXCEPT !.keywords = <<"a", "b">>]),
                                     Answer("json", [NoIntent EXCEPT !.tech_filter = <<"p", "y", "t", "h", "o", "n">>])} :
          /\ pc[t].at = "parse_search_intent.chat"
          /\ LET Stored(query, final) ==
                     /\ intent_cache' = _cache_set(intent_cache, clean_string(Lower(query)), final, clock)
                     /\ resolved' = Append(resolved,
                           [query |-> query, thread |-> t, began |-> pc[t].began,
                            source |-> "collaborator", value |-> final, calls |-> 1])
             IN  Stored(pc[t].query, intent_from_answer(pc[t].query, answer).final)
          /\ pc' = [pc EXCEPT ![t] = Idle]
    /\ UNCHANGED <<files, file_index, index_roots, disk, lastAgg, lastOp, ops, call, clock, reply,
                   cache_lock>>

\* two threads resolve queries, the clock standing still
SpecFlight == Init /\ [][ParseSearchIntentLookup \/ ParseSearchIntentChat]_vars

-----------------------------------------------------------------------------
(* Scans, saves and the worker while files disappear from the disk *)

\* a file of the tree is deleted on the disk, outside the program
DeleteOnDisk ==
    /\ \E p \in {P_x} \cap disk : disk' = disk \ {p}
    /\ UNCHANGED <<files, file_index, index_roots, lastAgg, lastOp, ops, nonStore>>

SpecGrow ==
    /\ InitOn({AllPaths})
    /\ [][ScanFrom \/ UpdateFolderAggregate \/ BackgroundSummarizer \/ DeleteOnDisk]_vars

\* scan_directory of one of the two folders of the tree, each a root of its own
ScanRoot ==
    /\ ops < MaxOps
    /\ \E root \in {P_a_, P_ab} :
          LET scan == scan_directory(CurDB, disk, root, <<P_r, P_a_, P_ab, P_y, P_x>> \o TreeFiles,
                                     [path |-> NULL, kind |-> "none"])
          IN  /\ Commit(scan.db, Op("scan_directory", root, EMPTY, scan.count))
              /\ index_roots' = add_index_root(index_roots, root)
              /\ lastAgg' = Aggregated(scan.db, scan.folders_seen)
    /\ UNCHANGED <<disk, nonStore>>

\* search_index with a root scope; the engine matches no row or every row
SearchIndexScoped ==
    /\ ops < MaxOps
    /\ \E query \in {<<"r">>, <<"m", "d">>, <<"p", "y", "t", "h", "o", "n", " ", "s", "c", "r", "i", "p", "t", "s">>}, root_path \in {P_a_, P_ab},
          order \in SetOrders :
       \E fts \in {FtsOutcome(FALSE, <<>>), FtsOutcome(FALSE, file_index)} :
          call' = Call("search_index",
                       [query |-> query, root_path |-> root_path, fts |-> fts, order |-> order],
                       search_index(CurDB, index_roots, query, root_path, fts, order))
    /\ lastOp' = Op("search_index", EMPTY, EMPTY, 0)
    /\ ops' = ops + 1
    /\ UNCHANGED <<pc, cache_lock, files, file_index, index_roots, disk, lastAgg,
                   intent_cache, clock, resolved, reply>>

\* the two folders scanned as roots in either order, and scoped searches
SpecScope ==
    /\ InitOn({AllPaths \cup {TreeFiles[i] : i \in 1..n} : n \in {1, MaxTree}})
    /\ [][ScanRoot \/ SearchIndexScoped]_vars

\* the walk that stays where it is
NextUp_stay(current) == current

\* current = os.path.dirname(current), the last statement of the loop body of
\* both ancestor walks
NextUp(current) == Dirname(current)

\* paths handed to the walks: the two files, a file outside every root, a path
\* with two leading separators, and the top of the file system
WalkPaths == {P_x, P_y, <<"/", "q", "/", "z", ".", "m", "d">>, <<"/", "/", "q", "/", "z", ".", "m", "d">>, P_fsroot}

\* update_folder_aggregate_up_tree or the walk of _get_parent_folders_for_paths
\* for one path is entered: the start folder and the stop folder are computed.
\* The bubbling walk takes its stop folder from get_best_root_for_path
WalkBegin ==
    /\ ops < MaxOps
    /\ pc["t1"] = Idle
    /\ \E path \in WalkPaths :
          \/ \E stop_at \in {NULL, get_best_root_for_path(index_roots, path), P_r, P_ab, <<"/", "q">>} :
                pc' = [pc EXCEPT !["t1"] =
                          [at |-> "walk", fn |-> "update_folder_aggregate_up_tree", path |-> path,
                           stop_at |-> stop_at,
                           stop |-> IF Truthy(stop_at) THEN Abspath(stop_at) ELSE NULL,
                           current |-> UpTreeStart(disk, path),
                           seen |-> {}, twice |-> FALSE, found |-> <<>>]]
          \/ pc' = [pc EXCEPT !["t1"] =
                       [at |-> "walk", fn |-> "_get_parent_folders_for_paths", path |-> path,
                        stop_at |-> get_best_root_for_path(index_roots, Abspath(path)),
                        stop |-> IF Truthy(get_best_root_for_path(index_roots, Abspath(path)))
                                 THEN Abspath(get_best_root_for_path(index_roots, Abspath(path)))
                                 ELSE NULL,
                        current |-> Dirname(Abspath(path)),
                        seen |-> {}, twice |-> FALSE, found |-> <<>>]]
    /\ ops' = ops + 1
    /\ UNCHANGED <<files, file_index, index_roots, disk, lastAgg, lastOp, call,
                   intent_cache, clock, resolved, reply, cache_lock>>

\* the control of one pass of a walk: the loop condition is tested and, when it
\* holds, the walk breaks at the stop folder or moves to the folder above; a
\* walk that ends leaves its record in call and lastOp
WalkControl ==
    LET w == pc["t1"]
        isFolder == IsFolderRow(files, w.current)
        Done(seen, found) ==
            /\ pc' = [pc EXCEPT !["t1"] = Idle]
            /\ call' = Call(w.fn, [path |-> w.path, stop_at |-> w.stop_at],
                            [visited |-> seen, folders |-> found])
            /\ lastOp' = Op(w.fn, w.path, EMPTY, Cardinality(seen))
        Body(seen, found) ==
            IF w.stop # NULL /\ Abspath(w.current) = w.stop
            THEN Done(seen, found)
            ELSE /\ pc' = [pc EXCEPT !["t1"] =
                              [w EXCEPT !.current = NextUp(w.current), !.seen = seen,
                                        !.twice = w.twice \/ w.current \in w.seen,
                                        !.found = found]]
                 /\ UNCHANGED <<call, lastOp>>
    IN  /\ w.at = "walk"
        /\ IF w.current = <<>> \/ w.current = Dirname(w.current)
           THEN Done(w.seen, w.found)
           ELSE Body(w.seen \cup {w.current},
                     IF isFolder THEN Append(w.found, w.current) ELSE w.found)

\* what the pass writes: update_folder_aggregate_up_tree aggregates the folder
\* it stands on when the Registry holds it as a folder; the bubbling walk only
\* reads
WalkWrite ==
    LET w == pc["t1"]
        Write(db) ==
            /\ files' = db.files
            /\ file_index' = db.file_index
            /\ lastAgg' = Aggregated(db, <<w.current>>)
    IN  IF /\ w.current # <<>>
           /\ w.current # Dirname(w.current)
           /\ IsFolderRow(files, w.current)
           /\ w.fn = "update_folder_aggregate_up_tree"
        THEN Write(update_folder_aggregate(CurDB, w.current, MaxChildren))
        ELSE UNCHANGED <<files, file_index, lastAgg>>

\* one pass of a walk
WalkStep ==
    /\ WalkControl
    /\ WalkWrite
    /\ UNCHANGED <<index_roots, disk, ops, intent_cache, clock, resolved, reply, cache_lock>>

\* scan_directory between two walks
ScanIdle == pc["t1"] = Idle /\ ScanFrom

\* scans and ancestor walks taken one loop pass at a time; a walk that can take
\* a pass takes it. A pass can always write the store and always changes pc, so
\* WalkStep is enabled exactly when its control is
SpecWalk ==
    /\ InitOn({AllPaths})
    /\ [][ScanIdle \/ WalkBegin \/ WalkStep]_vars
    /\ WF_pc(WalkControl)

-----------------------------------------------------------------------------
(* Properties of the store *)

\* the Registry row and the Content Index row of a registered path
Reg(table, path) == RowsOf(table, path)[1]
Idx(table, path) == RowsOf(table, path)[1]

\* C1: every path that has a Registry row has exactly one Content Index row, in
\* every state the store operations reach, a propagation that died between two
\* commits included.
C1_Pairing == \A p \in PathsIn(files) : CountOf(file_index, p) = 1

\* C1 witness: an upward propagation died after its first commit, leaving a
\* registered folder rewritten and its registered parent untouched.
C1_Witness ==
    /\ lastOp.op = "update_folder_aggregate_up_tree"
    /\ lastOp.arg = <<"died">>
    /\ lastOp.n >= 1
    /\ P_a_ \in PathsIn(files)
    /\ P_r \in PathsIn(files)

\* C2: an upsert of a path that is already registered leaves one row in each
\* store and leaves the summary and the tech stack the path had unchanged in both
\* stores.
C2_UpsertPreserves ==
    [][ (lastOp'.op \in {"insert_file", "insert_folder"} /\ lastOp'.n >= 1)
        => LET p == lastOp'.path
           IN  /\ CountOf(files', p) = 1
               /\ CountOf(file_index', p) = 1
               /\ Reg(files', p).summary = Reg(files, p).summary
               /\ Reg(files', p).tech_stack = Reg(files, p).tech_stack
               /\ CountOf(file_index, p) = 1
                  => /\ Idx(file_index', p).summary = Idx(file_index, p).summary
                     /\ Idx(file_index', p).tech_stack = Idx(file_index, p).tech_stack ]_vars

\* the rows nested under a folder, by path segments
NestedRows(table, folder) ==
    SelectSeq(table, LAMBDA r : r.path # folder /\ StartsWith(r.path, folder \o <<SEP>>))

\* the rows exactly one path segment below a folder
ChildRows(table, folder) ==
    SelectSeq(NestedRows(table, folder),
              LAMBDA r : ~Contains(Drop(r.path, Len(folder) + 1), SEP))

\* C3: after update_folder_aggregate(F) the Registry row of F carries the
\* statistics of the rows one segment below F, and the Content Index row of F
\* those of the rows nested under F at any depth, and of no other row.
C3_AggregateScope ==
    (lastOp.op = "update_folder_aggregate" /\ lastOp.path \in PathsIn(files))
    => LET f == lastOp.path
           direct == _compute_folder_stats(ChildRows(files, f), MaxChildren)
           rec == _compute_folder_stats(NestedRows(files, f), MaxChildren)
       IN  /\ Reg(files, f).summary = direct.summary
           /\ Reg(files, f).tech_stack = direct.tech_stack
           /\ Idx(file_index, f).content = rec.content
           /\ Idx(file_index, f).summary = rec.summary
           /\ Idx(file_index, f).tech_stack = rec.tech_stack

\* C4: every registered folder that has been aggregated carries, in the Registry,
\* the direct aggregate and, in the Content Index, the recursive aggregate and its
\* content that the aggregation wrote; no operation puts the direct summary or
\* empty content in their place.
C4_SplitAlways ==
    \A f \in DirPaths :
        (lastAgg[f].done /\ f \in PathsIn(files) /\ CountOf(file_index, f) = 1)
        => /\ Reg(files, f).summary = lastAgg[f].direct_summary
           /\ Idx(file_index, f).summary = lastAgg[f].rec_summary
           /\ Idx(file_index, f).content = lastAgg[f].rec_content
           /\ Idx(file_index, f).content # EMPTY

\* C5: for every registered file the Content Index summary and tech stack are
\* those of the Registry (NULL read as the empty text).
C5_FileLockstep ==
    \A p \in PathsIn(files) :
        (Reg(files, p).kind = "file" /\ CountOf(file_index, p) = 1)
        => /\ Idx(file_index, p).summary = OrEmpty(Reg(files, p).summary)
           /\ Idx(file_index, p).tech_stack = OrEmpty(Reg(files, p).tech_stack)

-----------------------------------------------------------------------------
(* Properties of the root tracker *)

\* the roots that cover a path by the literal rule: equal, or root + separator is a prefix
LiteralCover(roots, p) == {r \in roots : p = r \/ StartsWith(p, r \o <<SEP>>)}

\* the roots that cover a path, trailing separators of the root stripped first
StrippedCover(roots, p) == {r \in roots : p = r \/ StartsWith(p, RStrip(r, SEP) \o <<SEP>>)}

\* r is the longest member of a set of roots
Longest(r, rs) == r \in rs /\ \A q \in rs : Len(q) <= Len(r)

\* C6 as stated: the answer is the longest indexed root r with path == r or path
\* starting with r followed by the separator, and no root when there is none.
C6_BestRootLiteral ==
    call.fn = "get_best_root_for_path"
    => IF LiteralCover(index_roots, call.in) = {}
       THEN call.out = NULL
       ELSE Longest(call.out, LiteralCover(index_roots, call.in))

\* C6 amended: the answer is the longest indexed root r with path == r or path
\* starting with r, its trailing separators stripped, followed by the separator
\* (so the root "/" covers every absolute path), no root when there is none, and
\* never a root that is only a raw string prefix of the path.
C6_BestRoot ==
    call.fn = "get_best_root_for_path"
    => /\ IF StrippedCover(index_roots, call.in) = {}
          THEN call.out = NULL
          ELSE Longest(call.out, StrippedCover(index_roots, call.in))
       /\ call.out # NULL /\ call.out # call.in /\ call.out # P_fsroot
          => call.in[Len(call.out) + 1] = SEP

\* C6 witness: /r/a and /r are indexed, /r/ab/x.py is asked about, and /r is the
\* answer although /r/a is a longer raw prefix.
C6_Witness ==
    /\ call.fn = "get_best_root_for_path"
    /\ call.in = P_x
    /\ {P_a, P_r} \subseteq index_roots
    /\ P_ab \notin index_roots
    /\ call.out = P_r

-----------------------------------------------------------------------------
(* Properties of the intent parser and of search *)

\* the last resolution, when there is one
LastSeen == resolved[Len(resolved)]

\* C7: whatever earlier queries put in the cache, resolving "files from 2024"
\* returns exactly the year filter for 2024, resolving "budget files" returns
\* exactly the canned filter, and neither makes a collaborator call.
C7_RuleDeterminism ==
    resolved # <<>> =>
        /\ LastSeen.query = Q_year => (LastSeen.value = YearClause(<<"2", "0", "2", "4">>) /\ LastSeen.calls = 0)
        /\ LastSeen.query = Q_budget => (LastSeen.value = BudgetClause /\ LastSeen.calls = 0)

\* two resolutions in sequence of one raw query that no rule covers, the second
\* less than 120 seconds after the first
TwiceWithinTtl ==
    /\ Len(resolved) = 2
    /\ resolved[1].query = resolved[2].query
    /\ _rule_based_intent(resolved[2].query) = NULL
    /\ resolved[2].at - resolved[1].at < 120

\* a resolution that found its entry past its expiry time does not return it:
\* it resolves afresh, by rule, else by the collaborator
FreshAfterExpiry ==
    (resolved # <<>> /\ LastSeen.found = "expired") =>
        /\ LastSeen.source # "cache"
        /\ LastSeen.source = (IF _rule_based_intent(LastSeen.query) # NULL THEN "rule" ELSE "collaborator")
        /\ LastSeen.calls = (IF _rule_based_intent(LastSeen.query) # NULL THEN 0 ELSE 1)

\* C8 as stated: any two resolutions in sequence of the same raw query that no
\* rule covers, less than 120 seconds apart, make exactly one collaborator call
\* between them and return the same filter; and a resolution after the entry's
\* expiry time does not return the entry and resolves afresh.
C8_CacheLiteral ==
    /\ TwiceWithinTtl =>
          /\ resolved[1].calls + resolved[2].calls = 1
          /\ resolved[1].value = resolved[2].value
    /\ FreshAfterExpiry

\* C8, amended: when a resolution of a raw query that no rule covers found no
\* unexpired entry (so it called the collaborator and stored the filter) and the
\* same raw query is resolved next less than 120 seconds later, the collaborator
\* is called exactly once, by the first, and both return the same filter; and a
\* resolution after the entry's expiry time does not return the entry and
\* resolves afresh.
C8_Cache ==
    /\ (TwiceWithinTtl /\ resolved[1].found # "live") =>
          /\ resolved[1].calls = 1
          /\ resolved[2].calls = 0
          /\ resolved[2].source = "cache"
          /\ resolved[1].value = resolved[2].value
    /\ FreshAfterExpiry

\* C8 witness: a query no rule covers went to the collaborator, whose answer
\* gave no filter (the fallback text was stored), and the same query was
\* answered from the cache a minute later.
C8_Witness ==
    /\ TwiceWithinTtl
    /\ resolved[1].source = "collaborator"
    /\ resolved[1].value = clean_string(resolved[1].query)
    /\ resolved[2].at - resolved[1].at >= 60
    /\ resolved[2].source = "cache"

\* C9: a search request with use_ai set is answered with a success response
\* carrying a list, whatever the collaborator call did (raised, empty text,
\* prose, malformed block, decodable block) and whatever the full-text engine
\* did with the query.
C9_SearchNeverFails ==
    (reply.status # "none" /\ reply.use_ai) =>
        /\ reply.status = "success"
        /\ reply.data \in Seq({e \in UNION {{reply.data[i]} : i \in 1..Len(reply.data)} : TRUE})

\* C9 witness: the collaborator call raised and the full-text engine rejected the
\* fallback query, and the request was answered with success.
C9_Witness ==
    /\ reply.use_ai
    /\ reply.hard
    /\ reply.status = "success"

\* p is R or lies below R at a path-segment boundary
Under(p, R) == p = R \/ StartsWith(p, RStrip(R, SEP) \o <<SEP>>)

\* C10: every entry of the list returned for a search with a root scope, bubbled
\* folders included, has a path equal to the scope or nested under it.
C10_RootScope ==
    (reply.status = "success" /\ Truthy(reply.root_path)) =>
        \A i \in 1..Len(reply.data) : Under(reply.data[i].path, reply.root_path)

\* the last step was a search_index call, which `call` records
Searched == lastOp.op = "search_index"

\* the rows the sub-queries of the last search_index call produced
Produced == SearchRows(file_index, call.in.query, call.in.fts)

\* the scoped match set of the last search_index call: the produced paths, those
\* outside the root scope left out; and the files among them
MatchSet ==
    LET In(prod) == {prod[i].path : i \in {j \in 1..Len(prod) :
                        Truthy(call.in.root_path) => Under(prod[j].path, call.in.root_path)}}
    IN  In(Produced)
MatchedFiles ==
    LET In(prod, ms) == {prod[i].path : i \in {j \in 1..Len(prod) :
                            prod[j].kind = "file" /\ prod[j].path \in ms}}
    IN  In(Produced, MatchSet)

\* the Registry folders above p, up to and including p's best indexed root
Ancestors(p) ==
    LET Above(best) == {f \in PathsIn(files) :
                           /\ f # p
                           /\ Under(p, f)
                           /\ IsFolderRow(files, f)
                           /\ Truthy(best) => Under(f, best)}
    IN  Above(get_best_root_for_path(index_roots, p))

\* every folder above a file of `matched` is returned with kind folder
AllBubbled(matched) ==
    LET Owed(folders) == \A f \in folders :
                            \E i \in 1..Len(call.out) : call.out[i].path = f /\ call.out[i].kind = "folder"
    IN  Owed(UNION {Ancestors(p) : p \in matched})

C12_ResultCap == Searched => Len(call.out) <= ResultCap

\* C12 witness: a search whose match set alone is larger than the cap returned
\* exactly the cap.
C12_Witness ==
    /\ Searched
    /\ Cardinality(MatchSet) > ResultCap
    /\ Len(call.out) = ResultCap

\* C13: the list a search_index call returns holds no path twice, and its matched
\* entries stand in the order in which the sub-queries first produced their paths.
C13_Dedup ==
    LET Holds(prod, ms, out) ==
            LET first == [p \in ms |-> CHOOSE i \in 1..Len(prod) :
                                          /\ prod[i].path = p
                                          /\ \A j \in 1..(i - 1) : prod[j].path # p]
                Ordered(f) ==
                    \A i, j \in 1..Len(out) :
                       i < j =>
                          /\ out[i].path # out[j].path
                          /\ (out[i].path \in ms /\ out[j].path \in ms) => f[out[i].path] < f[out[j].path]
            IN  Ordered(first)
    IN  Searched => Holds(Produced, MatchSet, call.out)

\* C13 witness: two sub-queries produced the same path, and the returned list
\* holds several matched entries.
C13_Witness ==
    LET Shows(prod, ms) ==
            /\ \E i, j \in 1..Len(prod) : i < j /\ prod[i].path = prod[j].path
            /\ Cardinality({i \in 1..Len(call.out) : call.out[i].path \in ms}) >= 2
    IN  Searched /\ Shows(Produced, MatchSet)

\* C14: a successful list_folder(F) returns exactly the Registry rows whose path
\* is one path segment below F.
C14_ListFolder ==
    LET Exactly(F, data) ==
            /\ \A i \in 1..Len(data) : \E k \in 1..Len(files) : files[k].path = data[i].path
            /\ {data[i].path : i \in 1..Len(data)}
                  = {p \in PathsIn(files) : p # Abspath(F) /\ Dirname(p) = Abspath(F)}
    IN  (lastOp.op = "list_folder" /\ call.out.status = "success") => Exactly(call.in, call.out.data)

WrittenFiles ==
    {p \in PathsIn(files) \cap PathsIn(file_index) : RowsOf(files, p)[1].kind = "file"}

\* C20: a scan of the empty stores in which one entry fails writes every other
\* file under the root, and returns the number of files it wrote to the Registry
\* and the Content Index.
C20_ScanCount ==
    (lastOp.op = "scan_directory" /\ call.fn = "scan_directory" /\ ops = 1) =>
        /\ \A p \in disk : (~IsDir(disk, p) /\ Under(p, call.in.root_path) /\ p # call.in.fault.path)
                               => p \in WrittenFiles
        /\ lastOp.n = Cardinality(WrittenFiles)

\* the Registry holds p as a file without a summary / with a summary
Unsummarized(p) ==
    \E k \in 1..Len(files) : files[k].path = p /\ files[k].kind = "file" /\ ~Truthy(files[k].summary)
Summarized(p) ==
    \E k \in 1..Len(files) : files[k].path = p /\ files[k].kind = "file" /\ Truthy(files[k].summary)

\* no turn of the worker failed to read a file or got an empty summary
WorkerGood == lastOp.op = "background_summarizer" => lastOp.arg \notin {<<"unreadable">>, <<"empty">>}

\* C16: when every registered file is on disk and readable and the collaborator
\* returns non-empty summaries, every file registered without a summary
\* eventually has one.
C16_EventualCoverage ==
    ([]WorkerGood /\ [](\A p \in FilePaths : Unsummarized(p) => p \in disk))
        => \A p \in FilePaths : Unsummarized(p) ~> Summarized(p)

\* C16 witness: the worker saved a summary of the first unsummarized file while a
\* second file waits without one.
C16_Witness ==
    /\ lastOp.op = "background_summarizer"
    /\ lastOp.arg = <<"saved">>
    /\ Summarized(lastOp.path)
    /\ \E p \in FilePaths : Unsummarized(p)

\* C17: with one unsummarized file missing on disk, every other unsummarized
\* file that is on disk and read and summarized without failure eventually has a
\* summary.
C17_NoStarvation ==
    []WorkerGood => \A p \in FilePaths : (Unsummarized(p) /\ p \in disk) ~> Summarized(p)

-----------------------------------------------------------------------------
(* Properties of concurrent callers *)

\* the summary column of the row of `path`, NULL when the table has none
SummaryIn(table, path) == IF RowsOf(table, path) = <<>> THEN NULL ELSE RowsOf(table, path)[1].summary

\* C18: when insert_file(p) ends and the worker has saved a summary s of p since
\* insert_file's SELECT (the registry holds a summary that the SELECT did not
\* see), the Registry and the Content Index hold s for p afterwards, and p has
\* exactly one row in each store.
C18_Interleaving ==
    [][(/\ pc["t1"].at = "insert_file.write"
        /\ pc'["t1"] = Idle
        /\ Truthy(SummaryIn(files, pc["t1"].path))
        /\ SummaryIn(pc["t1"].row, pc["t1"].path) # SummaryIn(files, pc["t1"].path))
       => (/\ SummaryIn(files', pc["t1"].path) = SummaryIn(files, pc["t1"].path)
           /\ SummaryIn(file_index', pc["t1"].path) = SummaryIn(files, pc["t1"].path)
           /\ CountOf(files', pc["t1"].path) = 1
           /\ CountOf(file_index', pc["t1"].path) = 1)]_vars

\* the part of C18 about the number of rows, which holds
C18_OneRow ==
    [][(pc["t1"].at = "insert_file.write" /\ pc'["t1"] = Idle)
       => (CountOf(files', pc["t1"].path) = 1 /\ CountOf(file_index', pc["t1"].path) = 1)]_vars

\* a thread inside the `with _INTENT_CACHE_LOCK` block of _cache_get or _cache_set,
\* where the mapping is read, written and popped
InCacheAccess(t) ==
    pc[t].at \in {"_cache_get.locked", "_cache_get.exit", "_cache_set.locked", "_cache_set.exit"}

\* a lookup that has run its block and found an entry whose expiry time lies
\* before the time the lookup took at its start
FoundExpired(t) ==
    /\ pc[t].at = "_cache_get.exit"
    /\ pc[t].item # <<>>
    /\ pc[t].now > pc[t].item[1].expires

\* C19: a thread inside a cache access holds the cache lock, no two threads are
\* inside a cache access at the same time, and a lookup made after the expiry
\* time of the entry it finds returns nothing and has removed the entry.
C19_CacheLocking ==
    /\ \A t \in Threads : InCacheAccess(t) => cache_lock = <<t>>
    /\ \A t \in Threads, u \in Threads : InCacheAccess(t) /\ InCacheAccess(u) => t = u
    /\ \A t \in Threads :
          FoundExpired(t) => pc[t].value = NULL /\ pc[t].key \notin DOMAIN intent_cache

\* a lookup has removed an expired entry while the other thread waits for the lock
C19_Witness ==
    \E t \in Threads, u \in Threads :
       /\ FoundExpired(t)
       /\ pc[u].at \in {"_cache_get.acquire", "_cache_set.acquire"}

-----------------------------------------------------------------------------
(* Properties of aggregation and of requests *)

\* G lies below F in the tree
ProperDescendant(G, F) == G # F /\ StartsWith(G, RStrip(F, SEP) \o <<SEP>>)

\* C21: in the sweep of a scan, a folder that lies below another visited folder
\* is aggregated before it.
C21_SweepOrder ==
    call.fn = "scan_directory" =>
        \A i \in 1..Len(call.out.swept), j \in 1..Len(call.out.swept) :
            ProperDescendant(call.out.swept[j], call.out.swept[i]) => j < i

\* a scan has swept a folder and two folders below it
C21_Witness ==
    /\ call.fn = "scan_directory"
    /\ Len(call.out.swept) = 3
    /\ \E i \in 1..3, j \in 1..3 : ProperDescendant(call.out.swept[j], call.out.swept[i])

\* C22: a request whose method is none of the known ones is answered with the
\* error response "Unknown method", leaves the Registry, the Content Index, the
\* index roots and the intent cache as they were, and leaves the connection in
\* its receive loop, where the next request is handled.
C22_UnknownMethod ==
    [][(/\ call'.fn = "handle_request"
        /\ lastOp'.op = "handle_request"
        /\ ops' = ops + 1
        /\ call'.in.method \notin {"ping", "index_folder"})
       => (/\ call'.out = [status |-> "error", message |-> "Unknown method"]
           /\ <<files, file_index, index_roots, intent_cache>>' = <<files, file_index, index_roots, intent_cache>>
           /\ pc'["t1"].at = "recv")]_vars

\* on a connection whose last response was "Unknown method", a request to index
\* a folder has been served and the stores hold rows
C22_Witness ==
    /\ call.fn = "handle_request"
    /\ call.in.after = [status |-> "error", message |-> "Unknown method"]
    /\ call.in.method = "index_folder"
    /\ call.out.status = "success"
    /\ files # <<>>
    /\ pc["t1"].at = "recv"

\* the aggregate that the two stores hold for a folder is the one that
\* update_folder_aggregate computes from the rows of `db`
FreshIn(db, f) == Snapshot(update_folder_aggregate(db, f, MaxChildren), f) = Snapshot(db, f)

\* a step in which update_folder_aggregate_up_tree(path, stop_at) has run to its
\* end, stop_at being the folder the walk starts from or a folder above it
PropagationStep ==
    /\ lastOp'.op = "update_folder_aggregate_up_tree"
    /\ ops' = ops + 1
    /\ Truthy(call'.in.stop_at)
    /\ \/ UpTreeStart(disk, call'.in.path) = Abspath(call'.in.stop_at)
       \/ ProperDescendant(UpTreeStart(disk, call'.in.path), Abspath(call'.in.stop_at))

\* what such a step leaves: the folders of the chain fresh, the folders above
\* stop_at untouched
PropagationHolds ==
    LET Holds(start, stop) ==
            \A f \in PathsIn(files) :
               /\ (/\ IsFolderRow(files, f)
                   /\ (f = start \/ ProperDescendant(start, f))
                   /\ (f = stop \/ ProperDescendant(f, stop)))
                  => FreshIn(DB(files', file_index'), f)
               /\ ProperDescendant(stop, f)
                  => (/\ RowsOf(files', f) = RowsOf(files, f)
                      /\ RowsOf(file_index', f) = RowsOf(file_index, f))
    IN  Holds(UpTreeStart(disk, call'.in.path), Abspath(call'.in.stop_at))

\* C23: update_folder_aggregate_up_tree(path, stop_at), with stop_at the folder
\* the walk starts from or a folder above it, leaves every registered folder from
\* the start folder up to stop_at, stop_at included, with the aggregate of the
\* current rows, and leaves the rows of every folder above stop_at as they were
\* (so the filesystem root is not touched when stop_at lies below it).
C23_PropagationBounds == [][PropagationStep => PropagationHolds]_vars

\* the same for every stop_at but the filesystem root, which holds
C23_BelowFsRoot ==
    [][(PropagationStep /\ Abspath(call'.in.stop_at) # P_fsroot) => PropagationHolds]_vars

\* C24: after save_summary of a file (update_summary, then the propagation up to
\* the best root of the path), every registered folder above the file holds the
\* aggregate of the current rows, whatever the indexed roots are.
C24_AncestorFreshness ==
    (lastOp.op = "save_summary" /\ lastOp.path \in FilePaths) =>
        \A f \in PathsIn(files) :
            (IsFolderRow(files, f) /\ ProperDescendant(lastOp.path, f)) => FreshIn(CurDB, f)

\* the same for the folders up to the best root only, which holds
C24_UpToBestRoot ==
    (lastOp.op = "save_summary" /\ lastOp.path \in FilePaths) =>
        LET Holds(best) ==
                \A f \in PathsIn(files) :
                    (/\ IsFolderRow(files, f)
                     /\ ProperDescendant(lastOp.path, f)
                     /\ Truthy(best)
                     /\ f # P_fsroot
                     /\ (f = Abspath(best) \/ ProperDescendant(f, Abspath(best))))
                    => FreshIn(CurDB, f)
        IN  Holds(get_best_root_for_path(index_roots, lastOp.path))

-----------------------------------------------------------------------------
(* Properties of the query builder and of decoding *)

\* the number of places of s where sub occurs
Occurrences(sub, s) ==
    Cardinality({i \in 1..(Len(s) - Len(sub) + 1) : SubSeq(s, i, i + Len(sub) - 1) = sub})

\* C25: for a raw query with a bare year 20xx, no month abbreviation and neither
\* today nor yesterday in it, the filter starts with the year clause of that year
\* and holds no other date clause, whatever the date_filter of the intent is.
C25_DateGuard ==
    call.fn = "build_fts_query" =>
        LET Guarded(oq, year) ==
                (/\ year # NULL
                 /\ ~AnyIn(MonthWords, oq)
                 /\ ~InStr(<<"t", "o", "d", "a", "y">>, oq)
                 /\ ~InStr(<<"y", "e", "s", "t", "e", "r", "d", "a", "y">>, oq))
                => (/\ StartsWith(call.out, YearClause(year))
                    /\ Occurrences(<<"c", "r", "e", "a", "t", "e", "d", "_", "s", "t", "r", ":">>, call.out) = 1)
        IN  Guarded(Lower(call.in.original_query), YearSearch(Lower(call.in.original_query)))

\* the same for the years 2020 to 2029, which holds
C25_Twenties ==
    call.fn = "build_fts_query" =>
        LET Guarded(oq, year) ==
                (/\ year # NULL
                 /\ year[3] = "2"
                 /\ ~AnyIn(MonthWords, oq)
                 /\ ~InStr(<<"t", "o", "d", "a", "y">>, oq)
                 /\ ~InStr(<<"y", "e", "s", "t", "e", "r", "d", "a", "y">>, oq))
                => (/\ StartsWith(call.out, YearClause(year))
                    /\ Occurrences(<<"c", "r", "e", "a", "t", "e", "d", "_", "s", "t", "r", ":">>, call.out) = 1)
        IN  Guarded(Lower(call.in.original_query), YearSearch(Lower(call.in.original_query)))

\* the elements of s in order, each at its first occurrence only
FirstOccurrences(s) ==
    LET keep == {i \in 1..Len(s) : \A j \in 1..(i - 1) : s[j] # s[i]}
        Nth(n) == CHOOSE i \in keep : Cardinality({j \in keep : j <= i}) = n
    IN  [n \in 1..Cardinality(keep) |-> s[Nth(n)]]

\* C26: the filter build_fts_query returns is the date, tech and keyword clauses
\* it emits, in that order, each exact clause once, joined by AND; it is the
\* empty string when no clause is emitted, and parse_search_intent then
\* returns the cleaned raw query.
C26_ClauseAssembly ==
    /\ call.fn = "build_fts_query" =>
           LET Assembled(parts) ==
                   /\ parts = <<>> => call.out = EMPTY
                   /\ parts # <<>> => call.out = Join(<<" ", "A", "N", "D", " ">>, FirstOccurrences(parts))
                   /\ \A i \in 1..Len(parts) : Occurrences(parts[i], call.out) = 1
           IN  Assembled(DateParts(call.in.data, Lower(call.in.original_query))
                         \o TechParts(call.in.data) \o KeywordParts(call.in.data))
    /\ (/\ call.fn = "parse_search_intent"
        /\ call.out.answer.kind \in {"json", "malformed"}
        /\ build_fts_query(call.out.answer.data, call.in.user_query) = EMPTY)
       => call.out.final = clean_string(call.in.user_query)

\* a filter of three clauses has been built
C26_Witness ==
    /\ call.fn = "build_fts_query"
    /\ Occurrences(<<" ", "A", "N", "D", " ">>, call.out) = 2
    /\ DateParts(call.in.data, Lower(call.in.original_query)) # <<>>
    /\ TechParts(call.in.data) # <<>>
    /\ KeywordParts(call.in.data) # <<>>

\* some field of the intent is found in the text by its regular expression
Extractable(text) ==
    \/ FieldSearch(text, <<"d", "a", "t", "e", "_", "f", "i", "l", "t", "e", "r">>, {"null", "quoted", "digits", "word"}) # NULL
    \/ FieldSearch(text, <<"t", "e", "c", "h", "_", "f", "i", "l", "t", "e", "r">>, {"null", "quoted", "word"}) # NULL
    \/ FieldSearch(text, <<"k", "e", "y", "w", "o", "r", "d", "s">>, {"null", "quoted"}) # NULL

\* the filter built from the fields, the cleaned query when it is empty
FromFields(data, user_query) ==
    IF build_fts_query(data, user_query) = EMPTY THEN clean_string(user_query)
    ELSE build_fts_query(data, user_query)

\* C27: when the first brace-delimited block of the answer decodes as strict
\* JSON, the filter is built from its fields; otherwise, when a field can be
\* extracted from the answer by its regular expression, from the extracted
\* fields; and otherwise the filter is the cleaned query.
C27_TieredDecode ==
    call.fn = "parse_search_intent" =>
        LET Tiers(text, first, q) ==
                IF first # NULL /\ json_loads(first).ok
                THEN call.out.final = FromFields(json_loads(first).data, q)
                ELSE IF Extractable(text)
                     THEN call.out.final = FromFields(_regex_extract_intent(text), q)
                ELSE call.out.final = clean_string(q)
        IN  Tiers(StripFences(call.in.result), BraceBlock_first(StripFences(call.in.result)),
                  call.in.user_query)

\* the tiers as they are coded, which holds: the block runs from the first
\* opening brace to the last closing brace, and the fields are extracted only
\* from an answer that has such a block
C27_GreedyBlock ==
    call.fn = "parse_search_intent" =>
        LET Tiers(text, blob, q) ==
                IF blob # NULL /\ json_loads(blob).ok
                THEN call.out.final = FromFields(json_loads(blob).data, q)
                ELSE IF blob # NULL
                     THEN call.out.final = FromFields(_regex_extract_intent(text), q)
                ELSE call.out.final = clean_string(q)
        IN  Tiers(StripFences(call.in.result), BraceBlock(StripFences(call.in.result)),
                  call.in.user_query)

-----------------------------------------------------------------------------
(* Frames of the store operations *)

\* the Registry rows are those of before, the row of p changed by Change
RegistryFrame(p, Change(_)) ==
    /\ Len(files') = Len(files)
    /\ \A i \in 1..Len(files) :
          files'[i] = IF files[i].path = p THEN Change(files[i]) ELSE files[i]

\* the Content Index rows of every path but p are those of before
IndexFrame(p) ==
    \A q \in (PathsIn(file_index) \cup PathsIn(file_index')) \ {p} :
        RowsOf(file_index', q) = RowsOf(file_index, q)

\* C28: update_summary(p, s) changes the summary of p in the Registry and
\* nothing else there; a Content Index row of p keeps its kind, extension,
\* content, techStack and date tokens and gets the summary s; a registered p
\* without a Content Index row gets exactly one row, with the kind and
\* extension of the Registry, the summary s and the other columns empty; the
\* rows of the other paths stay as they are; files and folders alike.
C28_UpdateSummaryFrame ==
    [][(ops' # ops /\ lastOp'.op = "update_summary") =>
          LET Frame(p, s, old, reg) ==
                  /\ RegistryFrame(p, LAMBDA r : [r EXCEPT !.summary = s])
                  /\ IndexFrame(p)
                  /\ old # <<>> => RowsOf(file_index', p) = <<[old[1] EXCEPT !.summary = s]>>
                  /\ (old = <<>> /\ reg # <<>>) =>
                         RowsOf(file_index', p)
                             = <<IndexRow(p, reg[1].kind, reg[1].ext, EMPTY, s, EMPTY, EMPTY, EMPTY)>>
          IN  Frame(lastOp'.path, lastOp'.arg, RowsOf(file_index, lastOp'.path),
                    RowsOf(files, lastOp'.path))]_vars

\* update_summary has given a registered folder, whose index row was lost, its
\* minimal row, next to the row of another path
C28_Witness ==
    /\ lastOp.op = "update_summary"
    /\ RowsOf(files, lastOp.path) # <<>>
    /\ RowsOf(files, lastOp.path)[1].kind = "folder"
    /\ RowsOf(file_index, lastOp.path)
           = <<IndexRow(lastOp.path, "folder", EMPTY, EMPTY, lastOp.arg, EMPTY, EMPTY, EMPTY)>>
    /\ RowsOf(files, lastOp.path)[1].summary = lastOp.arg

\* C29: update_folder_aggregate(F) of a registered folder F changes the
\* summary and techStack of F in the Registry and nothing else there; the
\* Content Index row of F keeps its kind, extension and date tokens; the rows
\* of the other paths stay as they are.
C29_AggregateFrame ==
    [][(/\ ops' # ops
        /\ lastOp'.op = "update_folder_aggregate"
        /\ RowsOf(files, Abspath(lastOp'.path)) # <<>>
        /\ RowsOf(files, Abspath(lastOp'.path))[1].kind = "folder") =>
          LET Frame(F, old, new) ==
                  /\ RegistryFrame(F, LAMBDA r : [r EXCEPT !.summary = new[1].summary,
                                                         !.tech_stack = new[1].tech_stack])
                  /\ IndexFrame(F)
                  /\ Len(RowsOf(file_index', F)) = 1
                  /\ old # <<>> =>
                         \E content \in {RowsOf(file_index', F)[1].content},
                            summary \in {RowsOf(file_index', F)[1].summary},
                            tech_stack \in {RowsOf(file_index', F)[1].tech_stack} :
                            RowsOf(file_index', F)
                                = <<[old[1] EXCEPT !.content = content, !.summary = summary,
                                                   !.tech_stack = tech_stack]>>
          IN  Frame(Abspath(lastOp'.path), RowsOf(file_index, Abspath(lastOp'.path)),
                    RowsOf(files', Abspath(lastOp'.path)))]_vars

\* update_folder_aggregate has rewritten the aggregates of a registered folder
\* that has a child and an index row with date tokens
C29_Witness ==
    /\ lastOp.op = "update_folder_aggregate"
    /\ RowsOf(files, Abspath(lastOp.path)) # <<>>
    /\ RowsOf(files, Abspath(lastOp.path))[1].kind = "folder"
    /\ Truthy(RowsOf(files, Abspath(lastOp.path))[1].summary)
    /\ Len(files) >= 2
    /\ RowsOf(file_index, Abspath(lastOp.path)) # <<>>
    /\ RowsOf(file_index, Abspath(lastOp.path))[1].created_str # EMPTY
    /\ RowsOf(file_index, Abspath(lastOp.path))[1].content # EMPTY

\* C30: when rebuild_fts_index has completed, the paths of the Content Index
\* are the paths of the Registry, each with exactly one row, which carries the
\* kind, extension, summary and techStack of the Registry row (absent ones as
\* the empty text); a registered file that cannot be read has empty content.
C30_RebuildIndex ==
    lastOp.op = "rebuild_fts_index" =>
        /\ PathsIn(file_index) = PathsIn(files)
        /\ \A p \in PathsIn(files) :
              /\ CountOf(file_index, p) = 1
              /\ LET Carried(r, x) ==
                         /\ x.kind = r.kind
                         /\ x.ext = OrEmpty(r.ext)
                         /\ x.summary = OrEmpty(r.summary)
                         /\ x.tech_stack = OrEmpty(r.tech_stack)
                         /\ (r.kind = "file" /\ p \notin disk) => x.content = EMPTY
                         /\ (r.kind = "file" /\ p \in disk) => x.content = DiskContent(p)
                 IN  Carried(RowsOf(files, p)[1], RowsOf(file_index, p)[1])

\* the index has been rebuilt for a Registry that holds a summarized file
\* which is no longer on the disk
C30_Witness ==
    /\ lastOp.op = "rebuild_fts_index"
    /\ \E p \in PathsIn(files) :
          /\ p \notin disk
          /\ RowsOf(files, p)[1].kind = "file"
          /\ Truthy(RowsOf(files, p)[1].summary)
          /\ RowsOf(file_index, p)[1].content = EMPTY
          /\ RowsOf(file_index, p)[1].summary = RowsOf(files, p)[1].summary

-----------------------------------------------------------------------------
(* Properties of overlapping resolutions, saves and scans *)

\* the cache key of a resolution
KeyOf(res) == clean_string(Lower(res.query))

\* C31: of two resolutions of the same uncached, non-rule query, the second
\* begun before the first had stored its result, at most one calls the
\* collaborator, and both end with the same filter.
C31_SingleFlight ==
    \A i, j \in 1..Len(resolved) :
        (/\ i < j
         /\ KeyOf(resolved[i]) = KeyOf(resolved[j])
         /\ resolved[i].source = "collaborator"
         /\ resolved[j].began < i)
        => /\ resolved[i].calls + resolved[j].calls <= 1
           /\ resolved[i].value = resolved[j].value

\* without overlap it holds: a resolution begun after another of the same
\* query has stored its result takes the filter of the last such one from the
\* cache
C31_Sequential ==
    \A i, j \in 1..Len(resolved) :
        (/\ i < j
         /\ KeyOf(resolved[i]) = KeyOf(resolved[j])
         /\ resolved[j].began >= i
         /\ \A k \in (i + 1)..resolved[j].began : KeyOf(resolved[k]) # KeyOf(resolved[i]))
        => /\ resolved[j].calls = 0
           /\ resolved[i].value = resolved[j].value

\* get_summary(p) answers s in the database left by the step
SummaryIs(p, s) == get_summary(DB(files', file_index'), p) = s

\* the step is a save_summary request for p
SavesSummary(p) == ops' # ops /\ lastOp'.op = "save_summary" /\ lastOp'.path = p

\* the frame of durability: a save_summary request for a registered path of one
\* of `kinds` leaves get_summary answering the saved text, and no other step
\* changes a summary that holds a saved text
Durable(kinds) ==
    \A p \in AllPaths :
        (RowsOf(files, p) # <<>> /\ RowsOf(files, p)[1].kind \in kinds) =>
            /\ SavesSummary(p) => SummaryIs(p, lastOp'.arg)
            /\ (get_summary(CurDB, p) \in Summaries /\ ~SavesSummary(p))
                   => SummaryIs(p, get_summary(CurDB, p))

\* C32: once a save_summary request for a registered file or folder is
\* answered, get_summary of the path gives the saved text, and scans,
\* aggregation and the rebuild leave it so until the next save for the path.
C32_SaveDurable == [][Durable({"file", "folder"})]_vars

\* for files it holds
C32_FilesDurable == [][Durable({"file"})]_vars

\* C33: every Content Index row has a Registry row with the same path, in
\* every reachable state.
C33_NoOrphanRows == PathsIn(file_index) \subseteq PathsIn(files)

\* what does hold: a path of the Registry never loses its Content Index row to
\* a scan, a save or an aggregation
C33_RegisteredIndexed ==
    lastOp.op # "init" => PathsIn(files) \subseteq PathsIn(file_index)

\* C34: no step removes a Registry row or an indexed root; after a rescan, a
\* registered file that is gone from the disk is still listed in the
\* aggregate of its registered parent folder.
C34_OnlyGrow ==
    [][/\ PathsIn(files) \subseteq PathsIn(files')
       /\ index_roots \subseteq index_roots'
       /\ (ops' # ops /\ lastOp'.op = "scan_directory") =>
              \A p \in PathsIn(files) \cap FilePaths :
                  (/\ p \notin disk
                   /\ RootCovers(Abspath(lastOp'.path), p)
                   /\ Dirname(p) \in PathsIn(files))
                  => InStr(Basename(p), RowsOf(file_index', Dirname(p))[1].content)]_vars

\* a root has been scanned again after one of its registered files was
\* deleted on the disk
C34_Witness ==
    /\ lastOp.op = "scan_directory"
    /\ Abspath(lastOp.path) \in index_roots
    /\ \E p \in PathsIn(files) \cap FilePaths :
          /\ p \notin disk
          /\ RootCovers(Abspath(lastOp.path), p)
          /\ Dirname(p) \in PathsIn(files)
          /\ InStr(Basename(p), RowsOf(file_index, Dirname(p))[1].content)

\* the paths of the rows of `index` that match the filter: by the extension
\* alias, by a path sub-query, or by the full-text engine
Matching(index, query, fts) ==
    LET tokens == PathTokensFrom(query, 1)
        e == Lookup(ext_alias, Lower(Strip(query)))
        structured == InStr(<<":">>, query) \/ InStr(<<" ", "A", "N", "D", " ">>, query) \/ InStr(<<" ", "O", "R", " ">>, query)
        ByPath(r) == IF structured
                     THEN \E i \in 1..Len(tokens) : Like(r.path, <<"%">> \o tokens[i] \o <<"%">>)
                     ELSE (e # NULL /\ r.ext = e) \/ Like(r.path, <<"%">> \o query \o <<"%">>)
        ByText(r) == ~fts.error /\ \E i \in 1..Len(fts.rows) : fts.rows[i] = r
    IN  {index[i].path : i \in {j \in 1..Len(index) : ByPath(index[j]) \/ ByText(index[j])}}

\* the paths of the list the last search_index call returned
Returned == {call.out[i].path : i \in 1..Len(call.out)}

\* C35: after a search with root scope R for which fewer than 20 matching
\* entries lie under R, every matching file under R is in the returned list,
\* however many entries match outside R.
C35_ScopeKeepsMatches ==
    LET Holds(under) ==
            Cardinality(under) < ResultCap => (under \cap FilePaths) \subseteq Returned
    IN  (Searched /\ Truthy(call.in.root_path)) =>
            Holds({p \in Matching(file_index, call.in.query, call.in.fts) :
                      Under(p, call.in.root_path)})

\* the same for the searches whose filter matches no more rows than the
\* smallest LIMIT of a sub-query
C35_WithinLimits ==
    LET Holds(all, under) ==
            Cardinality(all) <= PathLimit => (under \cap FilePaths) \subseteq Returned
    IN  (Searched /\ Truthy(call.in.root_path)) =>
            Holds(Matching(file_index, call.in.query, call.in.fts),
                  {p \in Matching(file_index, call.in.query, call.in.fts) :
                      Under(p, call.in.root_path)})

\* a scoped search with few matches overall returned a matching file
C35_WithinLimits_Witness ==
    /\ Searched
    /\ Truthy(call.in.root_path)
    /\ Cardinality(Matching(file_index, call.in.query, call.in.fts)) <= PathLimit
    /\ \E p \in Matching(file_index, call.in.query, call.in.fts) \cap FilePaths :
          Under(p, call.in.root_path) /\ p \in Returned

\* the folders the last scan_directory call visited and swept
Visited ==
    IF IsDir(disk, Abspath(lastOp.path))
    THEN {f \in DirPaths \cap disk : Under(f, Abspath(lastOp.path))}
    ELSE {}

\* the sequences that hold every element of S once
OrdersOf(S) ==
    {s \in [1..Cardinality(S) -> S] : \A i, j \in 1..Cardinality(S) : i # j => s[i] # s[j]}

\* the Registry is the same, and the Content Index holds the same rows for
\* every path
SameRows(a, b) ==
    /\ a.files = b.files
    /\ PathsIn(a.file_index) = PathsIn(b.file_index)
    /\ \A p \in PathsIn(a.file_index) : RowsOf(a.file_index, p) = RowsOf(b.file_index, p)

\* C36: after a scan_directory call, update_folder_aggregate run again on every
\* visited folder, in any order, leaves the Registry and the rows of the
\* Content Index as they are.
C36_SweepFixpoint ==
    lastOp.op = "scan_directory" =>
        \A order \in OrdersOf(Visited) : SameRows(AggregateAll(CurDB, order), CurDB)

\* C36 witness: a scan visited the three folders, and the Content Index row of
\* the top folder carries the summary the sweep gave a folder below it.
C36_Witness ==
    /\ lastOp.op = "scan_directory"
    /\ Visited = DirPaths
    /\ InStr(<<"a", "b", ": ", "Folder with ">>, RowsOf(file_index, P_r)[1].content)
    /\ \A order \in OrdersOf(Visited) : SameRows(AggregateAll(CurDB, order), CurDB)

\* what generate_summary returns when the collaborator's call raises
FailureText == <<"Analysis failed.">>

\* the step is a turn of the worker that saved a summary for p
WorkerSaves(p) ==
    /\ lastOp' # lastOp
    /\ lastOp'.op = "background_summarizer"
    /\ lastOp'.path = p
    /\ lastOp'.arg \in {<<"saved">>, <<"empty">>}

\* p is one of get_unsummarized_files after the step
StillUnsummarized(p) ==
    \E i \in 1..Len(get_unsummarized_files(files')) : get_unsummarized_files(files')[i] = p

\* C37: a worker turn that stores the failure text for a file takes the file out
\* of the unsummarized set, and from then on no scan, aggregation or worker turn
\* changes that summary or summarizes the file again.
C37_FailureSticks ==
    [][\A p \in FilePaths :
          /\ (WorkerSaves(p) /\ SummaryIs(p, FailureText)) =>
                 /\ ~StillUnsummarized(p)
                 /\ RowsOf(file_index', p)[1].summary = FailureText
          /\ get_summary(CurDB, p) = FailureText =>
                 /\ SummaryIs(p, FailureText)
                 /\ ~StillUnsummarized(p)
                 /\ ~WorkerSaves(p)]_vars

\* C37 witness: a root was scanned again after the worker stored the failure
\* text for one of its files, and the file still carries it.
C37_Witness ==
    /\ lastOp.op = "scan_directory"
    /\ \E p \in FilePaths \cap disk :
          /\ Under(p, Abspath(lastOp.path))
          /\ get_summary(CurDB, p) = FailureText
          /\ RowsOf(file_index, p)[1].summary = FailureText

\* C38: an ancestor walk, whatever its path and stop folder, passes through no
\* folder twice and comes to its end.
C38_WalksTerminate ==
    /\ [](pc["t1"].at = "walk" => ~pc["t1"].twice)
    /\ (pc["t1"].at = "walk") ~> (pc["t1"] = Idle)

\* a finished walk has met the registered folders that the walk taken as a
\* whole meets
C38_SameAsWhole ==
    LET Holds(in, out) ==
            /\ call.fn = "update_folder_aggregate_up_tree" =>
                  out.folders = UpTreeFolders(files, UpTreeStart(disk, in.path),
                                              IF Truthy(in.stop_at) THEN Abspath(in.stop_at) ELSE NULL)
            /\ call.fn = "_get_parent_folders_for_paths" =>
                  {out.folders[i] : i \in 1..Len(out.folders)}
                     = ParentFolders(files, Dirname(Abspath(in.path)),
                                     IF Truthy(in.stop_at) THEN Abspath(in.stop_at) ELSE NULL)
    IN  (pc["t1"] = Idle /\ lastOp.op = call.fn
            /\ call.fn \in {"update_folder_aggregate_up_tree", "_get_parent_folders_for_paths"})
           => Holds(call.in, call.out)

\* C38 witness: update_folder_aggregate_up_tree has ended after a walk whose
\* stop folder is no ancestor of the path, having passed through the two
\* folders above the file.
C38_Witness ==
    /\ pc["t1"] = Idle
    /\ lastOp.op = "update_folder_aggregate_up_tree"
    /\ call.fn = "update_folder_aggregate_up_tree"
    /\ call.in.path = P_y
    /\ call.in.stop_at = P_ab
    /\ call.out.visited = {P_a_, P_r}

====
